---- MODULE Spec2Model ----
(***************************************************************************)
(* Sentiment & Outcome Capture Pipeline of pai-opencode.                   *)
(*                                                                         *)
(* Part 1: .opencode/plugins/handlers/implicit-sentiment.ts                *)
(*   isExplicitRating        the explicit-rating guard (a regular          *)
(*                           expression over the characters of the prompt) *)
(*   handleImplicitSentiment the handler: guard, length check, the race of *)
(*                           analyzeSentiment against a timer, rating      *)
(*                           normalisation, confidence gate, the append to *)
(*                           ratings.jsonl and the low-rating learning     *)
(*                           file.                                         *)
(*                                                                         *)
(* Text is a sequence of one-character strings.  Time is in milliseconds.  *)
(* Confidence is in hundredths (0.5 is 50).                                *)
(***************************************************************************)
EXTENDS Integers, Sequences, FiniteSets, TLC

\* ------------------------------------------------------------------ bounds
\* Concurrent/sequential invocations of handleImplicitSentiment.
MaxInv == 2
\* The clock runs for MaxTicks ticks of TickMs each.
MaxTicks == 2
\* Messages given to isExplicitRating are at most MaxTok tokens long.
MaxTok == 4
\* Responses handed to handleResponseCapture in one behaviour.
MaxTurns == 2
\* handleResponseCapture calls the host makes in one behaviour of the event loop.
MaxCalls == 2
\* Lines of the transcript handed to getRecentContext.
MaxLines == 4
\* RatingEntry lines appended after the one that is read back.
MaxLater == 1
\* handleVoiceNotification invocations on one machine.
MaxVoiceCalls == 2

\* --------------------------------------------------------------- constants
MIN_PROMPT_LENGTH == 3
\* 0.5, in hundredths
MIN_CONFIDENCE == 50
ANALYSIS_TIMEOUT == 25000
\* `rating: number | null`: the absent rating.  In the comparisons of the
\* handler (null < 6, null >= 6) JavaScript reads null as a number below 1.
NULL == -1

TickMs == ANALYSIS_TIMEOUT \div 2
MaxTime == MaxTicks * TickMs

\* ------------------------------------------------------------------- text
Flatten(toks) ==
    LET F[n \in 0..Len(toks)] == IF n = 0 THEN <<>> ELSE F[n - 1] \o toks[n]
    IN  F[Len(toks)]

\* \s of the regular expressions, and the set String.prototype.trim strips
IsSpace(c) == c \in {" ", "\n", "\t"}
\* `.` matches every character but a line terminator
IsLineTerminator(c) == c = "\n"
IsDigit(c) == c \in {"0", "1", "2", "3", "4", "5", "6", "7", "8", "9"}
UpperCase == {"B", "O", "T"}
\* the /i flag, on the upper-case letters used here
Lower(c) == CASE c = "B" -> "b" [] c = "O" -> "o" [] c = "T" -> "t" [] OTHER -> c
LowerSeq(s) == [k \in 1..Len(s) |-> Lower(s[k])]
\* \w
IsWordChar(c) ==
    \/ IsDigit(c)
    \/ c = "_"
    \/ c \in UpperCase
    \/ c \in {"a", "b", "c", "d", "e", "f", "g", "h", "i", "j", "k", "l", "m",
              "n", "o", "p", "q", "r", "s", "t", "u", "v", "w", "x", "y", "z"}

Drop(s, n) == SubSeq(s, n + 1, Len(s))
IsPrefix(p, s) == Len(p) <= Len(s) /\ SubSeq(s, 1, Len(p)) = p

\* number of leading whitespace characters of s
LeadingSpaces(s) ==
    LET L[n \in 0..Len(s)] ==
            IF n = Len(s) THEN n
            ELSE IF IsSpace(s[n + 1]) THEN L[n + 1] ELSE n
    IN  L[0]
TrimStart(s) == Drop(s, LeadingSpaces(s))
TrailingSpaces(s) ==
    LET L[n \in 0..Len(s)] ==
            IF n = Len(s) THEN n
            ELSE IF IsSpace(s[Len(s) - n]) THEN L[n + 1] ELSE n
    IN  L[0]
TrimEnd(s) == SubSeq(s, 1, Len(s) - TrailingSpaces(s))
\* String.prototype.trim
Trim(s) == TrimEnd(TrimStart(s))

\* (.*)$ : the rest of the text holds no line terminator
DotStarToEnd(s) == \A k \in 1..Len(s) : ~IsLineTerminator(s[k])

\* ------------------------------------------------------- isExplicitRating
\* (10|[1-9]) : the lengths of the alternatives that match at the start of t
RatingDigits(t) ==
    {g \in {1, 2} :
        \/ g = 2 /\ IsPrefix(<<"1", "0">>, t)
        \/ g = 1 /\ t # <<>> /\ IsDigit(t[1]) /\ t[1] # "0"}

\* (?:\s*[-:]\s*|\s+)? at the start of r: every way it can match, as
\* <<alternative, characters consumed>>; alternative 3 is the group left out
OptionalSeparator(r) ==
    LET a == LeadingSpaces(r)
        punct == a < Len(r) /\ r[a + 1] \in {"-", ":"}
        b == IF punct THEN LeadingSpaces(Drop(r, a + 1)) ELSE 0
    IN  {<<1, a + 1 + k>> : k \in IF punct THEN 0..b ELSE {}}
        \cup {<<2, k>> : k \in 1..a}
        \cup {<<3, 0>>}

\* every way /^(10|[1-9])(?:\s*[-:]\s*|\s+)?(.*)$/ matches t, as
\* <<length of group 1, alternative of the separator, length of the separator>>
RatingMatches(t) ==
    {c \in {<<g, o[1], o[2]>> : g \in RatingDigits(t), o \in (0..3) \X (0..Len(t))} :
        /\ <<c[2], c[3]>> \in OptionalSeparator(Drop(t, c[1]))
        /\ DotStarToEnd(Drop(t, c[1] + c[3]))}

\* the order in which the backtracking matcher tries them: "10" before a
\* single digit, the alternatives left to right, each \s* and \s+ greedy
TriedBefore(c, d) ==
    \/ c[1] > d[1]
    \/ c[1] = d[1] /\ c[2] < d[2]
    \/ c[1] = d[1] /\ c[2] = d[2] /\ c[3] > d[3]

\* match[2] of the match the engine reports
RatingComment(t) ==
    LET M == RatingMatches(t)
        c == CHOOSE x \in M : \A y \in M \ {x} : TriedBefore(x, y)
    IN  Drop(t, c[1] + c[3])

\* \b after a prefix that ends in a word character
BoundaryAfter(p, s) == Len(s) = Len(p) \/ ~IsWordChar(s[Len(p) + 1])

StarterStems ==
    { <<"i","t","e","m">>, <<"t","h","i","n","g">>, <<"s","t","e","p">>,
      <<"f","i","l","e">>, <<"l","i","n","e">>, <<"b","u","g">>,
      <<"i","s","s","u","e">>, <<"e","r","r","o","r">>, <<"t","i","m","e">>,
      <<"m","i","n","u","t","e">>, <<"h","o","u","r">>, <<"d","a","y">>,
      <<"s","e","c","o","n","d">>, <<"p","e","r","c","e","n","t">>, <<"%">> }
StarterWords ==
    { <<"t","h">>, <<"s","t">>, <<"n","d">>, <<"r","d">>, <<"o","f">>,
      <<"i","n">>, <<"a","t">>, <<"t","o">>, <<"t","h","e">>, <<"a">>,
      <<"a","n">> }
\* sentenceStarters.test(comment), with the /i flag
sentenceStarters(comment) ==
    LET s == LowerSeq(comment)
    IN  \/ \E p \in StarterStems : IsPrefix(p, s)
        \/ \E p \in StarterWords : IsPrefix(p, s) /\ BoundaryAfter(p, s)

isExplicitRating(prompt) ==
    LET trimmed == Trim(prompt)
    IN  IF RatingMatches(trimmed) = {} THEN FALSE
        ELSE LET comment == Trim(RatingComment(trimmed))
             IN  IF comment # <<>> /\ sentenceStarters(comment) THEN FALSE
                 ELSE TRUE

\* ---------------------------------------------------------------- messages
Tokens ==
    { <<"1">>, <<"0">>, <<"3">>, <<" ">>, <<"\n">>, <<"-">>,
      <<"b","u","g","s">>, <<"O","f">>, <<"t","h">>, <<"g","r","e","a","t">> }
TokenSeqs == UNION {[1..n -> Tokens] : n \in 0..MaxTok}
Messages == {Flatten(ts) : ts \in TokenSeqs}

\* ====================================================== response capture
\* src/.opencode/plugins/handlers/response-capture.ts.  Texts and file
\* contents are sequences of one-character strings.

LowerLetters ==
    <<"a", "b", "c", "d", "e", "f", "g", "h", "i", "j", "k", "l", "m", "n",
      "o", "p", "q", "r", "s", "t", "u", "v", "w", "x", "y", "z">>
UpperLetters ==
    <<"A", "B", "C", "D", "E", "F", "G", "H", "I", "J", "K", "L", "M", "N",
      "O", "P", "Q", "R", "S", "T", "U", "V", "W", "X", "Y", "Z">>
\* String.prototype.toLowerCase / toUpperCase and the /i flag, on one character
toLowerCase(c) ==
    IF \E k \in 1..26 : UpperLetters[k] = c
    THEN LowerLetters[CHOOSE k \in 1..26 : UpperLetters[k] = c] ELSE c
toUpperCase(c) ==
    IF \E k \in 1..26 : LowerLetters[k] = c
    THEN UpperLetters[CHOOSE k \in 1..26 : LowerLetters[k] = c] ELSE c
\* \w
IsWord(c) == IsDigit(c) \/ c = "_" \/ toLowerCase(c) # c \/ toUpperCase(c) # c

\* the literal lit at position p of s
OccursAt(s, p, lit) ==
    /\ p >= 1 /\ p + Len(lit) - 1 <= Len(s)
    /\ \A k \in 1..Len(lit) : s[p + k - 1] = lit[k]
\* the same under the /i flag; lit is in lower case
MatchAt(s, p, lit) ==
    /\ p >= 1 /\ p + Len(lit) - 1 <= Len(s)
    /\ \A k \in 1..Len(lit) : toLowerCase(s[p + k - 1]) = lit[k]
\* String.prototype.includes
includes(s, lit) == \E p \in 1..Len(s) : OccursAt(s, p, lit)
\* String.prototype.indexOf from position `from`, 0 when there is none
indexOf(s, lit, from) ==
    LET P == {p \in from..Len(s) : OccursAt(s, p, lit)}
    IN  IF P = {} THEN 0 ELSE CHOOSE p \in P : \A r \in P : p <= r

\* the start and the end of a line: ^ and $ under the /m flag, and the
\* $ of (?:\n|$) seen from the character before it
LineStart(s, p) == p = 1 \/ (p > 1 /\ IsLineTerminator(s[p - 1]))
LineEnd(s, p) == p = Len(s) + 1 \/ (p <= Len(s) /\ IsLineTerminator(s[p]))

\* the positions a matcher can stand at after a literal, from a position of P
ThenLit(s, P, lit) == {p + Len(lit) : p \in {r \in P : MatchAt(s, r, lit)}}
\* how many characters from position p on are white space
SpacesAt(s, p) ==
    LET N[k \in p..(Len(s) + 1)] ==
            IF k > Len(s) \/ ~IsSpace(s[k]) THEN 0 ELSE 1 + N[k + 1]
    IN  IF p > Len(s) THEN 0 ELSE N[p]
\* ... after \s*
ThenSpaces(s, P) == UNION {p..(p + SpacesAt(s, p)) : p \in P}
\* ... after \s+
ThenSpaces1(s, P) == UNION {(p + 1)..(p + SpacesAt(s, p)) : p \in P}
\* the lengths \d+ can take at position p
DigitRuns(s, p) ==
    LET N[k \in p..(Len(s) + 1)] ==
            IF k > Len(s) \/ ~IsDigit(s[k]) THEN 0 ELSE 1 + N[k + 1]
    IN  IF p > Len(s) THEN {} ELSE 1..N[p]
Max(S) == CHOOSE x \in S : \A y \in S : y <= x
Min(S) == CHOOSE x \in S : \A y \in S : x <= y
DigitValue(c) ==
    CASE c = "0" -> 0 [] c = "1" -> 1 [] c = "2" -> 2 [] c = "3" -> 3
      [] c = "4" -> 4 [] c = "5" -> 5 [] c = "6" -> 6 [] c = "7" -> 7
      [] c = "8" -> 8 [] c = "9" -> 9
\* parseInt(digits, 10) of a run of digits
parseInt(digits) ==
    LET V[n \in 0..Len(digits)] ==
            IF n = 0 THEN 0 ELSE 10 * V[n - 1] + DigitValue(digits[n])
    IN  V[Len(digits)]

L_level == <<"l", "e", "v", "e", "l">>
L_isc == <<"i", "s", "c">>
L_criteri == <<"c", "r", "i", "t", "e", "r", "i">>
L_criteria == <<"c", "r", "i", "t", "e", "r", "i", "a">>
L_all == <<"a", "l", "l">>
L_satisfied == <<"s", "a", "t", "i", "s", "f", "i", "e", "d">>

\* ------------------------------------------------------ extractEffortLevel
EffortLevel == {"QUICK", "STANDARD", "THOROUGH", "TRIVIAL"}
\* the alternatives of (QUICK|STANDARD|THOROUGH|TRIVIAL), as /i matches them
EffortWord(e) ==
    CASE e = "QUICK" -> <<"q", "u", "i", "c", "k">>
      [] e = "STANDARD" -> <<"s", "t", "a", "n", "d", "a", "r", "d">>
      [] e = "THOROUGH" -> <<"t", "h", "o", "r", "o", "u", "g", "h">>
      [] e = "TRIVIAL" -> <<"t", "r", "i", "v", "i", "a", "l">>
\* /level\s+(QUICK|STANDARD|THOROUGH|TRIVIAL)/i at position p: the levels it matches
EffortAt(text, p) ==
    {e \in EffortLevel :
        ThenLit(text, ThenSpaces1(text, ThenLit(text, {p}, L_level)),
                EffortWord(e)) # {}}
\* match[1].toUpperCase() of the leftmost match, NoEffort when there is none
NoEffort == "null"
extractEffortLevel(text) ==
    LET starts == {p \in {r \in 1..Len(text) : MatchAt(text, r, L_level)} :
                        EffortAt(text, p) # {}}
    IN  IF starts = {} THEN NoEffort
        ELSE CHOOSE e \in EffortAt(text, Min(starts)) : TRUE

\* -------------------------------------------------- extractISCSatisfaction
NoSatisfaction == [kind |-> "null"]
Satisfaction(satisfied, total) ==
    [satisfied |-> satisfied, partial |-> 0, failed |-> 0, total |-> total]

\* \s*(?:ISC\s*)?criteria?,?\s*all\s*satisfied from position r
AllSatisfiedTail(text, r) ==
    LET a == ThenSpaces(text, {r})
        b == a \cup ThenSpaces(text, ThenLit(text, a, L_isc))
        c == ThenLit(text, b, L_criteri)
        d == c \cup ThenLit(text, c, <<"a">>)
        e == d \cup ThenLit(text, d, <<",">>)
        f == ThenLit(text, ThenSpaces(text, e), L_all)
    IN  ThenLit(text, ThenSpaces(text, f), L_satisfied) # {}
\* the lengths of group 1 with which the pattern matches at position p
AllSatisfiedAt(text, p) ==
    {d \in DigitRuns(text, p) : AllSatisfiedTail(text, p + d)}

\* \s*criteria\s*satisfied from position r
PartialTail(text, r) ==
    ThenLit(text, ThenSpaces(text, ThenLit(text, ThenSpaces(text, {r}),
                                           L_criteria)), L_satisfied) # {}
\* <<length of group 1, length of group 2>> of (\d+)\/(\d+)... at position p
PartialAt(text, p) ==
    UNION {{<<d1, d2>> : d2 \in {d \in DigitRuns(text, p + d1 + 1) :
                                    PartialTail(text, p + d1 + 1 + d)}} :
           d1 \in {d \in DigitRuns(text, p) :
                      OccursAt(text, p + d, <<"/">>)}}

\* mutant: the two numbers of "A/B" change places
PartialSatisfaction_Swapped(a, b) == Satisfaction(b, a)
\* lines 94-99
PartialSatisfaction(a, b) == Satisfaction(a, b)

\* the first text.match is the all-satisfied pattern; its match returns
PhrasingOrder(all, partial) == IF all # {} THEN 1 ELSE 2

\* the leftmost match of each pattern, its groups the longest (\d+ is greedy)
extractISCSatisfaction(text) ==
    LET digits == {p \in 1..Len(text) : IsDigit(text[p])}
        all == {p \in digits : AllSatisfiedAt(text, p) # {}}
        partial == {p \in digits : PartialAt(text, p) # {}}
    IN  IF all = {} /\ partial = {} THEN NoSatisfaction
        ELSE IF PhrasingOrder(all, partial) = 1
        THEN LET p == Min(all)
                 total == parseInt(SubSeq(text, p,
                                          p + Max(AllSatisfiedAt(text, p)) - 1))
             IN  Satisfaction(total, total)
        ELSE LET p == Min(partial)
                 G == PartialAt(text, p)
                 g1 == Max({g[1] : g \in G})
                 g2 == Max({g[2] : g \in {h \in G : h[1] = g1}})
             IN  PartialSatisfaction(
                     parseInt(SubSeq(text, p, p + g1 - 1)),
                     parseInt(SubSeq(text, p + g1 + 1, p + g1 + g2)))

\* ------------------------------------------------- parseStructuredResponse
\* the pictographs that open the SUMMARY line and the voice line, and the
\* check mark of the completion marker, each as one symbol
CLIPBOARD == "<clipboard>"
SPEAKING == "<speaking>"
CHECK == "<check>"
\* ... and those that open the ANALYSIS, ACTIONS, RESULTS, STATUS and NEXT
\* sections
MAGNIFIER == "<magnifier>"
BOLT == "<bolt>"
CHECKMARK == "<checkmark>"
CHART == "<chart>"
ARROW == "<arrow>"
L_summary == <<"s", "u", "m", "m", "a", "r", "y", ":">>
L_analysis == <<"a", "n", "a", "l", "y", "s", "i", "s", ":">>
L_actions == <<"a", "c", "t", "i", "o", "n", "s", ":">>
L_results == <<"r", "e", "s", "u", "l", "t", "s", ":">>
L_status == <<"s", "t", "a", "t", "u", "s", ":">>
L_next == <<"n", "e", "x", "t", ":">>

Absent == [present |-> FALSE, value |-> <<>>]
Present(v) == [present |-> TRUE, value |-> v]
\* the truthiness of an optional string
Truthy(f) == f.present /\ f.value # <<>>

\* \s*(.+?) followed by the end of the line: \s* gives back what the group
\* needs; R is where \s* can stop.  The group, or Absent when nothing matches
RestOfLine(text, R) ==
    LET starts == {r \in R : r <= Len(text) /\ ~IsLineTerminator(text[r])}
        r == Max(starts)
        ends == {k \in r..Len(text) : LineEnd(text, k + 1)}
        e == Min(ends)
    IN  IF starts = {} THEN Absent ELSE Present(SubSeq(text, r, e))

\* /<clipboard>\s*SUMMARY:\s*(.+?)(?:\n|$)/i at position p
SummaryAt(text, p) ==
    RestOfLine(text,
        ThenSpaces(text, ThenLit(text, ThenSpaces(text,
            ThenLit(text, {p}, <<CLIPBOARD>>)), L_summary)))
\* \w+: from a position of P
ThenWordColon(text, P) ==
    {r + 1 : r \in {k \in 1..Len(text) :
        /\ text[k] = ":"
        /\ \E p \in P : p < k /\ \A j \in p..(k - 1) : IsWord(text[j])}}
\* /<speaking>\s*\w+:\s*(.+?)$/m at position p
CompletedAt(text, p) ==
    RestOfLine(text,
        ThenSpaces(text, ThenWordColon(text, ThenSpaces(text,
            ThenLit(text, {p}, <<SPEAKING>>)))))
\* the positions after `marker \s* label \s*` from position p
AfterLabel(text, p, marker, label) ==
    ThenSpaces(text, ThenLit(text, ThenSpaces(text,
        ThenLit(text, {p}, <<marker>>)), label))
\* \s*(.+?)(?:\n(?:m1|m2|...)|$) under the s flag: the group starts where the
\* greedy \s* leaves a character for it and runs to the first line break that
\* a terminating marker follows, else to the end of the text; with
\* anyLine the pattern ends (?:\n|$) and the group runs to the first line
\* break
DotAllGroup(text, R, terminators, anyLine) ==
    LET starts == {r \in R : r <= Len(text)}
        r == Max(starts)
        ends == {k \in r..Len(text) :
                    \/ k = Len(text)
                    \/ /\ text[k + 1] = "\n"
                       /\ \/ anyLine
                          \/ k + 2 <= Len(text) /\ text[k + 2] \in terminators}
    IN  IF starts = {} THEN Absent ELSE Present(SubSeq(text, r, Min(ends)))
\* /<magnifier>\s*ANALYSIS:\s*(.+?)(?:\n(?:<bolt>|<checkmark>|<chart>|<arrow>)|$)/is
AnalysisAt(text, p) ==
    DotAllGroup(text, AfterLabel(text, p, MAGNIFIER, L_analysis),
                {BOLT, CHECKMARK, CHART, ARROW}, FALSE)
\* /<bolt>\s*ACTIONS:\s*(.+?)(?:\n(?:<checkmark>|<chart>|<arrow>)|$)/is
ActionsAt(text, p) ==
    DotAllGroup(text, AfterLabel(text, p, BOLT, L_actions),
                {CHECKMARK, CHART, ARROW}, FALSE)
\* /<checkmark>\s*RESULTS:\s*(.+?)(?:\n(?:<chart>|<arrow>)|$)/is
ResultsAt(text, p) ==
    DotAllGroup(text, AfterLabel(text, p, CHECKMARK, L_results),
                {CHART, ARROW}, FALSE)
\* /<chart>\s*STATUS:\s*(.+?)(?:\n|$)/i
StatusAt(text, p) ==
    RestOfLine(text, AfterLabel(text, p, CHART, L_status))
\* /<arrow>\s*NEXT:\s*(.+?)(?:\n|$)/is
NextAt(text, p) ==
    DotAllGroup(text, AfterLabel(text, p, ARROW, L_next), {}, TRUE)
\* the match of the named pattern that starts at p
MatchOf(pattern, text, p) ==
    CASE pattern = "summary" -> SummaryAt(text, p)
      [] pattern = "analysis" -> AnalysisAt(text, p)
      [] pattern = "actions" -> ActionsAt(text, p)
      [] pattern = "results" -> ResultsAt(text, p)
      [] pattern = "status" -> StatusAt(text, p)
      [] pattern = "next" -> NextAt(text, p)
      [] OTHER -> CompletedAt(text, p)
\* group 1 of the leftmost match of the pattern, which opens with the symbol
\* `first`, trimmed
FirstMatch(text, first, pattern) ==
    LET starts == {p \in {r \in 1..Len(text) : text[r] = first} :
                        MatchOf(pattern, text, p).present}
    IN  IF starts = {} THEN Absent
        ELSE Present(Trim(MatchOf(pattern, text, Min(starts)).value))
\* lines 276-308
parseStructuredResponse(text) ==
    [summary |-> FirstMatch(text, CLIPBOARD, "summary"),
     analysis |-> FirstMatch(text, MAGNIFIER, "analysis"),
     actions |-> FirstMatch(text, BOLT, "actions"),
     results |-> FirstMatch(text, CHECKMARK, "results"),
     status |-> FirstMatch(text, CHART, "status"),
     next |-> FirstMatch(text, ARROW, "next"),
     completed |-> FirstMatch(text, SPEAKING, "completed")]

\* --------------------------------------------------------- updateTaskISC
COMPLETION_MARKER == <<CHECK, " ", "C", "O", "M", "P", "L", "E", "T", "E">>
MissingFile == [kind |-> "missing"]
\* ISC.json with text that JSON.parse rejects
MalformedFile == [kind |-> "malformed"]
\* ISC.json holding the JSON text `null`
NullFile == [kind |-> "null"]
\* ISC.json holding an object, written with the given indentation
ObjectFile(doc, indent) == [kind |-> "object", indent |-> indent, doc |-> doc]

\* mutant: a status that became COMPLETE is kept by later satisfaction data
StatusFromSatisfaction_Sticky(status, s) ==
    IF s = NoSatisfaction \/ status = "COMPLETE" THEN status
    ELSE IF s.satisfied = s.total THEN "COMPLETE" ELSE "PARTIAL"
\* mutant: complete as soon as any criterion is satisfied
StatusFromSatisfaction_Any(status, s) ==
    IF s = NoSatisfaction THEN status
    ELSE IF s.satisfied >= 1 THEN "COMPLETE" ELSE "PARTIAL"
\* lines 133-136
StatusFromSatisfaction(status, s) ==
    IF s = NoSatisfaction THEN status
    ELSE IF s.satisfied = s.total THEN "COMPLETE" ELSE "PARTIAL"

\* mutant: the marker is looked at only when no satisfaction was extracted
StatusFromMarker_Yields(status, text, s) ==
    IF includes(text, COMPLETION_MARKER) /\ s = NoSatisfaction
    THEN "COMPLETE" ELSE status
\* lines 139-141
StatusFromMarker(status, text, s) ==
    IF includes(text, COMPLETION_MARKER) THEN "COMPLETE" ELSE status

\* mutant: a response without an effort token resets the level
PatchEffortLevel_Reset(stored, effort) ==
    IF effort # NoEffort THEN effort ELSE "STANDARD"
\* lines 126-129
PatchEffortLevel(stored, effort) ==
    IF effort # NoEffort THEN effort ELSE stored

\* lines 122-143: the document after the patch
PatchISC(doc, text, timestamp) ==
    LET satisfaction == extractISCSatisfaction(text)
    IN  [doc EXCEPT
            !.effortLevel = PatchEffortLevel(@, extractEffortLevel(text)),
            !.satisfaction =
                IF satisfaction # NoSatisfaction THEN satisfaction ELSE @,
            !.status = StatusFromMarker(
                           StatusFromSatisfaction(@, satisfaction),
                           text, satisfaction),
            !.updatedAt = timestamp]

\* mutant: a document that cannot be parsed is replaced by a new one
RecoverISC_Recreate(file, timestamp) ==
    ObjectFile([taskId |-> "t1", status |-> "PENDING",
                effortLevel |-> "STANDARD", criteria |-> <<>>,
                antiCriteria |-> <<>>, satisfaction |-> NoSatisfaction,
                createdAt |-> timestamp, updatedAt |-> timestamp,
                notes |-> "none"], 2)
\* what is on disk after the catch of line 147, and after the early return
\* of lines 116-119
RecoverISC(file, timestamp) == file

\* the file ISC.json after updateTaskISC; writeFails: writeFileSync throws
updateTaskISC(file, text, timestamp, writeFails) ==
    IF file.kind = "missing" THEN RecoverISC(file, timestamp)
    ELSE IF file.kind = "malformed" THEN RecoverISC(file, timestamp)
    \* doc is null: the first assignment to a property of it throws
    ELSE IF file.kind = "null" THEN RecoverISC(file, timestamp)
    ELSE IF writeFails THEN file
    ELSE ObjectFile(PatchISC(file.doc, text, timestamp), 2)

\* --------------------------------------------------------- updateTaskMeta
STATUS_IN_PROGRESS ==
    <<"s", "t", "a", "t", "u", "s", ":", " ", "\"", "I", "N", "_", "P", "R",
      "O", "G", "R", "E", "S", "S", "\"">>
STATUS_DONE ==
    <<"s", "t", "a", "t", "u", "s", ":", " ", "\"", "D", "O", "N", "E",
      "\"">>
L_completedAt ==
    <<"c", "o", "m", "p", "l", "e", "t", "e", "d", "A", "t", ":">>
L_summaryField == <<"s", "u", "m", "m", "a", "r", "y", ":">>
FENCE == <<"-", "-", "-">>
FENCE_NL == <<"-", "-", "-", "\n">>
\* substring(0, 200)
SUMMARY_LENGTH == 200
NoFile == [exists |-> FALSE, content |-> <<>>]
File(content) == [exists |-> TRUE, content |-> content]

\* where a line of s is exactly lit
LinesEqual(s, lit) ==
    {p \in 1..Len(s) :
        LineStart(s, p) /\ OccursAt(s, p, lit) /\ LineEnd(s, p + Len(lit))}

\* mutant: a document that is done is reopened
ReplaceStatus_Reopen(content) ==
    LET P == LinesEqual(content, STATUS_IN_PROGRESS)
        Q == LinesEqual(content, STATUS_DONE)
    IN  IF P # {}
        THEN SubSeq(content, 1, Min(P) - 1) \o STATUS_DONE
             \o Drop(content, Min(P) + Len(STATUS_IN_PROGRESS) - 1)
        ELSE IF Q # {}
        THEN SubSeq(content, 1, Min(Q) - 1) \o STATUS_IN_PROGRESS
             \o Drop(content, Min(Q) + Len(STATUS_DONE) - 1)
        ELSE content
\* content.replace(/^status: "IN_PROGRESS"$/m, 'status: "DONE"'): the first
\* such line of the whole content
ReplaceStatus(content) ==
    LET P == LinesEqual(content, STATUS_IN_PROGRESS)
    IN  IF P = {} THEN content
        ELSE SubSeq(content, 1, Min(P) - 1) \o STATUS_DONE
             \o Drop(content, Min(P) + Len(STATUS_IN_PROGRESS) - 1)

\* the replacement patterns of String.prototype.replace in the text put
\* between $1 and $2: $$, $&, $`, $', $1 and $2 (there are two groups and the
\* match starts the content, so $` is empty)
Substitute(ins, g1, g2, after) ==
    LET E[n \in 1..(Len(ins) + 1)] ==
            IF n > Len(ins) THEN <<>>
            ELSE IF ins[n] # "$" \/ n = Len(ins) THEN <<ins[n]>> \o E[n + 1]
            ELSE CASE ins[n + 1] = "$" -> <<"$">> \o E[n + 2]
                   [] ins[n + 1] = "&" -> g1 \o g2 \o E[n + 2]
                   [] ins[n + 1] = "`" -> E[n + 2]
                   [] ins[n + 1] = "'" -> after \o E[n + 2]
                   [] ins[n + 1] = "1" -> g1 \o E[n + 2]
                   [] ins[n + 1] = "2" -> g2 \o E[n + 2]
                   [] OTHER -> <<"$">> \o E[n + 1]
    IN  E[1]

\* content.replace(/^(---\n[\s\S]*?)(---)/, `$1${ins}$2`): group 1 runs from
\* the opening fence to the first later "---", wherever that stands
InsertInHeader(content, ins) ==
    LET close == IF OccursAt(content, 1, FENCE_NL)
                 THEN indexOf(content, FENCE, Len(FENCE_NL) + 1) ELSE 0
        g1 == SubSeq(content, 1, close - 1)
        after == Drop(content, close + Len(FENCE) - 1)
    IN  IF close = 0 THEN content
        ELSE g1 \o Substitute(ins, g1, FENCE, after) \o FENCE \o after

\* summary.replace(/"/g, '\\"')
EscapeQuotes(s) ==
    Flatten([k \in 1..Len(s) |->
                IF s[k] = "\"" THEN <<"\\", "\"">> ELSE <<s[k]>>])
substring(s, n) == SubSeq(s, 1, IF Len(s) < n THEN Len(s) ELSE n)

\* mutant: a field is added whether or not the content mentions it
FieldMissing_Always(content, name) == TRUE
\* mutant: a summary is inserted whether or not the content holds one
FieldMissing_SummaryAgain(content, name) ==
    name = L_summaryField \/ ~includes(content, name)
\* !content.includes('completedAt:'), !content.includes('summary:')
FieldMissing(content, name) == ~includes(content, name)

\* lines 165-182: the content after the patch
PatchThread(content, structured, timestamp) ==
    IF ~(Truthy(structured.completed) \/ Truthy(structured.summary))
    THEN content
    ELSE LET c1 == ReplaceStatus(content)
             c2 == IF FieldMissing(c1, L_completedAt)
                   THEN InsertInHeader(c1,
                            L_completedAt \o <<" ", "\"">> \o timestamp
                            \o <<"\"", "\n">>)
                   ELSE c1
             summary == substring(
                            IF Truthy(structured.completed)
                            THEN structured.completed.value
                            ELSE IF Truthy(structured.summary)
                            THEN structured.summary.value ELSE <<>>,
                            SUMMARY_LENGTH)
         IN  IF summary # <<>> /\ FieldMissing(c2, L_summaryField)
             THEN InsertInHeader(c2,
                      L_summaryField \o <<" ", "\"">> \o EscapeQuotes(summary)
                      \o <<"\"", "\n">>)
             ELSE c2

\* lines 159-162: THREAD.md does not exist
RecoverThread(file) == file

\* the file THREAD.md after updateTaskMeta; writeFails: writeFileSync throws
updateTaskMeta(file, structured, timestamp, writeFails) ==
    IF ~file.exists THEN RecoverThread(file)
    ELSE IF writeFails THEN file
    ELSE File(PatchThread(file.content, structured, timestamp))

\* ------------------------------------------------- response capture: inputs
\* responses shown to one session are at most MaxTurns
\* "6 criteria, all satisfied"
R_AllSatisfied ==
    <<"6", " ", "c", "r", "i", "t", "e", "r", "i", "a", ",", " ", "a", "l",
      "l", " ", "s", "a", "t", "i", "s", "f", "i", "e", "d">>
\* "2/5 criteria satisfied" and a summary line
R_Partial ==
    <<"2", "/", "5", " ", "c", "r", "i", "t", "e", "r", "i", "a", " ", "s",
      "a", "t", "i", "s", "f", "i", "e", "d", "\n", CLIPBOARD, " ", "S",
      "U", "M", "M", "A", "R", "Y", ":", " ", "h", "a", "l", "f">>
\* the completion marker and "2/5 criteria satisfied"
R_MarkerPartial ==
    <<CHECK, " ", "C", "O", "M", "P", "L", "E", "T", "E", " ", "2", "/",
      "5", " ", "c", "r", "i", "t", "e", "r", "i", "a", " ", "s", "a", "t",
      "i", "s", "f", "i", "e", "d">>
\* a summary line and a voice line, no ISC token
R_Completed ==
    <<CLIPBOARD, " ", "S", "U", "M", "M", "A", "R", "Y", ":", " ", "d", "o",
      "n", "e", "\n", SPEAKING, " ", "P", "A", "I", ":", " ", "s", "h", "i",
      "p", "p", "e", "d">>
\* an effort level and the completion marker
R_EffortMarker ==
    <<"l", "e", "v", "e", "l", " ", "t", "h", "o", "r", "o", "u", "g", "h",
      " ", CHECK, " ", "C", "O", "M", "P", "L", "E", "T", "E">>
\* no token at all
R_Plain == <<"t", "h", "a", "n", "k", "s">>
\* "5/5 criteria satisfied" and another summary
R_Five ==
    <<"5", "/", "5", " ", "c", "r", "i", "t", "e", "r", "i", "a", " ", "s",
      "a", "t", "i", "s", "f", "i", "e", "d", "\n", CLIPBOARD, " ", "S",
      "U", "M", "M", "A", "R", "Y", ":", " ", "a", "l", "l">>
\* both phrasings, the "A/B" one first
R_Both ==
    <<"2", "/", "5", " ", "c", "r", "i", "t", "e", "r", "i", "a", " ", "s",
      "a", "t", "i", "s", "f", "i", "e", "d", ",", " ", "6", " ", "I", "S",
      "C", " ", "c", "r", "i", "t", "e", "r", "i", "a", " ", "a", "l", "l",
      " ", "s", "a", "t", "i", "s", "f", "i", "e", "d">>
Responses ==
    {R_AllSatisfied, R_Partial, R_MarkerPartial, R_Completed,
     R_EffortMarker, R_Plain, R_Five, R_Both}

Tasks == {"t1", "t2"}
\* the sessions the host runs, and the session whose directory holds a task
\* (current-work.json names session_id, session_dir and current_task)
CaptureSessions == {"s1", "s2"}
TaskSession(t) == IF t = "t1" THEN "s1" ELSE "s2"
\* the file operation that throws during one call: none, one on ISC.json,
\* one on THREAD.md, or one on the learning file
CaptureFaults == {"none", "isc", "thread", "learning"}

DigitChars == <<"0", "1", "2", "3", "4", "5", "6", "7", "8", "9">>
\* getISOTimestamp() during the n-th call; 0 is the time the task was created
Stamp(n) == <<"T", DigitChars[n + 1]>>

\* a task's ISC.json as the task starts
FreshISC(t) ==
    [taskId |-> t, status |-> "PENDING", effortLevel |-> "STANDARD",
     criteria |-> <<"c1", "c2">>, antiCriteria |-> <<"a1">>,
     satisfaction |-> NoSatisfaction, createdAt |-> Stamp(0),
     updatedAt |-> Stamp(0), notes |-> "kept"]
\* ... and of a task that was completed before, written without indentation
DoneISC(t) ==
    [FreshISC(t) EXCEPT !.status = "COMPLETE", !.effortLevel = "QUICK",
                        !.satisfaction = Satisfaction(6, 6)]
FreshThread ==
    <<"-", "-", "-", "\n", "s", "t", "a", "t", "u", "s", ":", " ", "\"",
      "I", "N", "_", "P", "R", "O", "G", "R", "E", "S", "S", "\"", "\n",
      "-", "-", "-", "\n", "l", "o", "g", "\n", "s", "t", "a", "t", "u",
      "s", ":", " ", "\"", "I", "N", "_", "P", "R", "O", "G", "R", "E", "S",
      "S", "\"", "\n">>
BareThread == <<"l", "o", "g", "\n", "-", "-", "-", "\n">>
\* ... and of a task that was done before
DoneThread ==
    <<"-", "-", "-", "\n", "s", "t", "a", "t", "u", "s", ":", " ", "\"",
      "D", "O", "N", "E", "\"", "\n", "c", "o", "m", "p", "l", "e", "t",
      "e", "d", "A", "t", ":", " ", "\"", "T", "0", "\"", "\n", "-", "-",
      "-", "\n", "l", "o", "g", "\n">>
\* isLearningCapture(text, summary, analysis) of lib/learning-utils: the
\* responses that have the shape of a capturable insight
LearningShaped == {R_Completed}
isLearningCapture(text) == text \in LearningShaped

ISCFiles(t) ==
    {MissingFile, MalformedFile, NullFile, ObjectFile(FreshISC(t), 2),
     ObjectFile(DoneISC(t), 0)}
\* THREAD.md: absent, as the task starts (its log quotes a status line),
\* without a leading block, or done
ThreadFiles ==
    {NoFile, File(FreshThread), File(BareThread), File(DoneThread)}

\* ---------------------------------------------------- captureWorkSummary
\* current-work.json as readCurrentWork returns it: the task, or "null"
readCurrentWork(file) ==
    IF file \in {"missing", "malformed"} THEN "null" ELSE file

L_completed == <<"c", "o", "m", "p", "l", "e", "t", "e", "d">>
TASK_COMPLETION ==
    <<"t", "a", "s", "k", "-", "c", "o", "m", "p", "l", "e", "t", "i", "o",
      "n">>
GENERAL_TASK ==
    <<"g", "e", "n", "e", "r", "a", "l", "-", "t", "a", "s", "k">>
\* description.length < 3
DESCRIPTION_MIN == 3
\* .slice(0, 60)
FILENAME_DESC_LENGTH == 60
\* .replace(/^Completed\s+/i, '')
StripCompleted(s) ==
    LET R == ThenSpaces1(s, ThenLit(s, {1}, L_completed))
    IN  IF R = {} THEN s ELSE Drop(s, Max(R) - 1)
\* lines 328-341.  No response here carries a bracketed tag or an ANALYSIS
\* section, so the two replacements of tags find nothing to remove and
\* structured.analysis is absent
Description(structured) ==
    LET first == IF Truthy(structured.completed)
                 THEN structured.completed.value
                 ELSE IF Truthy(structured.summary)
                 THEN structured.summary.value ELSE TASK_COMPLETION
        d1 == Trim(StripCompleted(first))
        second == IF Truthy(structured.summary)
                  THEN structured.summary.value ELSE TASK_COMPLETION
        d2 == IF Len(d1) < DESCRIPTION_MIN
              THEN Trim(StripCompleted(second)) ELSE d1
    IN  IF Len(d2) < DESCRIPTION_MIN THEN GENERAL_TASK ELSE d2
\* cleanDesc of generateFilename
CleanDesc(description) ==
    LET lower == [k \in 1..Len(description) |-> toLowerCase(description[k])]
        kept == SelectSeq(lower,
                    LAMBDA c : IsDigit(c) \/ toUpperCase(c) # c
                               \/ IsSpace(c) \/ c = "-")
        dashed == Flatten([k \in 1..Len(kept) |->
                    IF ~IsSpace(kept[k]) THEN <<kept[k]>>
                    ELSE IF k > 1 /\ IsSpace(kept[k - 1]) THEN <<>>
                    ELSE <<"-">>])
    IN  substring(dashed, FILENAME_DESC_LENGTH)
\* the learning file of lines 343-356: its name (the time to the second, the
\* cleaned description) and the response it quotes
LearningFile(structured, text, timestamp) ==
    [name |-> [time |-> timestamp, desc |-> CleanDesc(Description(structured))],
     text |-> text]

\* mutant: an exception thrown by a file operation leaves the handler
Caught_Escapes(f) == f = "none"
\* every file operation runs inside a try whose catch logs and goes on
\* (lines 147, 186, 359, 385 and 390)
Caught(f) == TRUE


\* --------------------------------------------------------------- variables
VARIABLES
    msg,            \* isExplicitRating: the message under test
    verdict,        \* isExplicitRating: its result, "unset" before the call
    now,            \* the clock, in milliseconds
    pc,             \* per invocation: "idle", "racing" (at the await), "done"
    prompt,         \* per invocation: the prompt argument
    sessionId,      \* per invocation: the sessionId argument
    transcriptPath, \* per invocation: whether a transcriptPath was given
    inference,      \* per invocation: the inference call: "none", "pending", "settled"
    inferenceCalls, \* per invocation: how often inference() was invoked
    timer,          \* per invocation: the setTimeout: "none", "armed", "fired"
    armedAt,        \* per invocation: the time the armed timer was set, else 0
    winner,         \* per invocation: the promise that settled first
    sentiment,      \* per invocation: what Promise.race delivered
    outcome,        \* per invocation: the branch the handler left by (its log line)
    ret,            \* per invocation: the value the returned promise resolved to
    entryOf,        \* per invocation: index of the line it appended to ratings, or 0
    learningOf,     \* per invocation: index of the learning file it wrote, or 0
    ratings,        \* LEARNING/SIGNALS/ratings.jsonl, as its sequence of lines
    learnings       \* the learning files written, in order

rvars == <<msg, verdict>>
hvars == <<pc, prompt, sessionId, transcriptPath, inference, inferenceCalls,
           timer, armedAt, winner, sentiment, outcome, ret, entryOf,
           learningOf>>
svars == <<now, hvars, ratings, learnings>>

\* the files and the invocations of handleResponseCapture
VARIABLES
    currentWork,    \* STATE/current-work.json: "missing", "malformed", or the task it names
    iscFile,        \* per task: WORK/<session>/tasks/<task>/ISC.json
    threadFile,     \* per task: WORK/<session>/tasks/<task>/THREAD.md
    captures,       \* the learning files handleResponseCapture wrote
    turn,           \* how many responses handleResponseCapture was called with
    response,       \* the text of the last of them
    captureFault,   \* the file operation that threw during the last call
    captureRet,     \* how the promise of the last call settled, "none" before
    captureSession  \* the sessionId argument of the last call, "none" before

cvars == <<currentWork, iscFile, threadFile, captures, turn, response,
           captureFault, captureRet, captureSession>>

\* handleResponseCapture calls on the event loop, statement by statement
VARIABLES
    running,        \* the call whose code the event loop is running, 0 if none
    cpc,            \* per call: the statement it is at
    ctext,          \* per call: the text argument
    held            \* per call: the documents it has read and not yet written

tvars == <<running, cpc, ctext, held>>

\* a function of the pipeline applied to one input
VARIABLES
    input,          \* the argument
    output          \* the result, Unset before the call

pvars == <<input, output>>

\* one handleVoiceNotification invocation
VARIABLES
    vpc,            \* the await the invocation is at, "idle" before, "done" after
    venv,           \* the machine: voice server up, API key configured, platform
    vmsg,           \* the message handed to the engines
    attempts,       \* the engines asked to speak, in order, with their results
    vret            \* the value the promise resolved to, "none" before

vvars == <<vpc, venv, vmsg, attempts, vret>>

ovars == <<cvars, tvars, pvars, vvars>>
vars == <<rvars, svars, cvars, tvars, pvars, vvars>>

\* ------------------------------------------------------------------ inputs
Inv == 1..MaxInv
\* the session an invocation belongs to
SessionOf(i) == IF i % 2 = 1 THEN "s1" ELSE "s2"
\* "8 great", "3 bugs", "ok"
Prompts ==
    { <<"8"," ","g","r","e","a","t">>, <<"3"," ","b","u","g","s">>,
      <<"o","k">> }

\* The inference collaborator (skills/PAI/Tools/Inference, not part of the
\* sources at hand): it returns {success, parsed?, error?} or rejects, and
\* `parsed` has the SentimentResult shape when success is true.
\* an absent rating, the lowest rating, and the lowest rating that is not low
Ratings == {NULL, 1, 6}
Confidences == {MIN_CONFIDENCE - 1, MIN_CONFIDENCE}
\* the category the rubric of SENTIMENT_SYSTEM_PROMPT gives a rating
RubricSentiment(r) ==
    IF r = NULL \/ r = 5 THEN "neutral"
    ELSE IF r < 5 THEN "negative" ELSE "positive"
SentimentResult ==
    {[rating |-> r, sentiment |-> RubricSentiment(r), confidence |-> c,
      summary |-> "summary"] : r \in Ratings, c \in Confidences}
InferenceOutcomes ==
    {[kind |-> "rejected"], [kind |-> "unsuccessful"]}
    \cup {[kind |-> "parsed", parsed |-> r] : r \in SentimentResult}

\* what fails among the file operations of one invocation
Faults == {"none", "append", "learning"}

\* ------------------------------------------------- handleImplicitSentiment
NoValue == [kind |-> "none"]
Null == [kind |-> "null"]
Rejected == [kind |-> "rejected"]
Value(v) == [kind |-> "value", value |-> v]

\* what the promise of analyzeSentiment settles to
analyzeSentiment(result) ==
    CASE result.kind = "rejected" -> Rejected
      [] result.kind = "unsuccessful" -> Null
      [] OTHER -> Value(result.parsed)

\* mutant: the length check lets a two-character prompt through
PromptTooShort_OffByOne(p) == Len(p) < MIN_PROMPT_LENGTH - 1
\* prompt.length < MIN_PROMPT_LENGTH
PromptTooShort(p) == Len(p) < MIN_PROMPT_LENGTH

\* mutant: the timer is set without its delay
TimerDue_NoDelay(t) == t
\* setTimeout(() => resolve(null), ANALYSIS_TIMEOUT), set at time t: when it is due
TimerDue(t) == t + ANALYSIS_TIMEOUT

\* mutant: the handler also continues from the promise that settles second
RaceOpen_EverySettle(i) == pc[i] \in {"racing", "done"}
\* Promise.race: the first promise to settle decides, once
RaceOpen(i) == pc[i] = "racing"

\* mutant: the absent rating is given a baseline outside the scale
NormalizeRating_Zero(r) == IF r = NULL THEN 0 ELSE r
\* mutant: the absent rating is not normalised
NormalizeRating_Skipped(r) == r
\* if (sentiment.rating === null) sentiment.rating = 5
NormalizeRating(r) == IF r = NULL THEN 5 ELSE r

\* mutant: the confidence gate is one hundredth too low
LowConfidence_OffByOne(c) == c < MIN_CONFIDENCE - 1
\* if (sentiment.confidence < MIN_CONFIDENCE) return null
LowConfidence(c) == c < MIN_CONFIDENCE

\* mutant: the entry keeps the rating as the classifier gave it
ImplicitRatingEntry_AsClassified(t, rating, session, s) ==
    [timestamp |-> t, rating |-> s.rating, session_id |-> session,
     source |-> "implicit", sentiment_summary |-> s.summary,
     confidence |-> s.confidence]
\* the entry handed to writeImplicitRating
ImplicitRatingEntry(t, rating, session, s) ==
    [timestamp |-> t, rating |-> rating, session_id |-> session,
     source |-> "implicit", sentiment_summary |-> s.summary,
     confidence |-> s.confidence]

\* mutant: writeFileSync in place of appendFileSync
writeImplicitRating_Overwrite(file, entry) ==
    <<[json |-> entry, newline |-> TRUE]>>
\* appendFileSync(ratingsFile, JSON.stringify(entry) + '\n')
writeImplicitRating(file, entry) ==
    Append(file, [json |-> entry, newline |-> TRUE])

\* mutant: both comparisons take 6 for a low rating
CapturesLearning_OffByOne(rating, tp) == (rating <= 6 /\ tp) /\ ~(rating > 6)
\* `sentiment.rating < 6 && transcriptPath` at the call, and the
\* `if (rating >= 6) return` that opens captureLowRatingLearning
CapturesLearning(rating, tp) == (rating < 6 /\ tp) /\ ~(rating >= 6)

\* getFilenameTimestamp() at time t: date and time of day to the second
getFilenameTimestamp(t) == t \div 1000
\* the file captureLowRatingLearning writes:
\* `${timestamp}_LEARNING_sentiment-rating-${rating}.md`
captureLowRatingLearning(files, t, rating, s) ==
    Append(files, [filename |-> <<getFilenameTimestamp(t), rating>>,
                   rating |-> rating, summary |-> s.summary])

Return(i, why, value) ==
    /\ pc' = [pc EXCEPT ![i] = "done"]
    /\ outcome' = [outcome EXCEPT ![i] = why]
    /\ ret' = [ret EXCEPT ![i] = value]

\* lines 354-375: the guards, then the call of analyzeSentiment, the timer
\* and the await of Promise.race
Invoke(i) ==
    /\ pc[i] = "idle"
    /\ \A j \in 1..(i - 1) : pc[j] # "idle"
    /\ now + ANALYSIS_TIMEOUT <= MaxTime
    /\ \E p \in Prompts, tp \in BOOLEAN :
        /\ prompt' = [prompt EXCEPT ![i] = p]
        /\ sessionId' = [sessionId EXCEPT ![i] = SessionOf(i)]
        /\ transcriptPath' = [transcriptPath EXCEPT ![i] = tp]
        /\ IF isExplicitRating(p)
           THEN /\ Return(i, "deferred", Null)
                /\ UNCHANGED <<inference, inferenceCalls, timer, armedAt>>
           ELSE IF PromptTooShort(p)
           THEN /\ Return(i, "skipped", Null)
                /\ UNCHANGED <<inference, inferenceCalls, timer, armedAt>>
           ELSE /\ inference' = [inference EXCEPT ![i] = "pending"]
                /\ inferenceCalls' = [inferenceCalls EXCEPT ![i] = @ + 1]
                /\ timer' = [timer EXCEPT ![i] = "armed"]
                /\ armedAt' = [armedAt EXCEPT ![i] = now]
                /\ pc' = [pc EXCEPT ![i] = "racing"]
                /\ UNCHANGED <<outcome, ret>>
    /\ UNCHANGED <<rvars, ovars, now, winner, sentiment, entryOf, learningOf,
                   ratings, learnings>>

\* lines 377-425: the handler from the value of the race to its return
Resume(i, v, fault) ==
    /\ sentiment' = [sentiment EXCEPT ![i] = v]
    /\ CASE v.kind = "rejected" ->
              /\ Return(i, "error", Null)
              /\ UNCHANGED <<entryOf, learningOf, ratings, learnings>>
         [] v.kind = "null" ->
              /\ Return(i, "failed", Null)
              /\ UNCHANGED <<entryOf, learningOf, ratings, learnings>>
         [] OTHER ->
              LET s == v.value
                  rating == NormalizeRating(s.rating)
                  entry == ImplicitRatingEntry(now, rating, sessionId[i], s)
              IN  IF LowConfidence(s.confidence)
                  THEN /\ Return(i, "low-confidence", Null)
                       /\ UNCHANGED <<entryOf, learningOf, ratings, learnings>>
                  ELSE IF fault = "append"
                  THEN /\ Return(i, "error", Null)
                       /\ UNCHANGED <<entryOf, learningOf, ratings, learnings>>
                  ELSE /\ ratings' = writeImplicitRating(ratings, entry)
                       /\ entryOf' = [entryOf EXCEPT ![i] = Len(ratings')]
                       /\ IF ~CapturesLearning(rating, transcriptPath[i])
                          THEN /\ UNCHANGED <<learningOf, learnings>>
                               /\ Return(i, "accepted",
                                         Value([rating |-> rating,
                                                sentiment |-> s.sentiment,
                                                confidence |-> s.confidence]))
                          ELSE IF fault = "learning"
                          THEN /\ UNCHANGED <<learningOf, learnings>>
                               /\ Return(i, "error", Null)
                          ELSE /\ learnings' =
                                    captureLowRatingLearning(learnings, now,
                                                             rating, s)
                               /\ learningOf' =
                                    [learningOf EXCEPT ![i] = Len(learnings')]
                               /\ Return(i, "accepted",
                                         Value([rating |-> rating,
                                                sentiment |-> s.sentiment,
                                                confidence |-> s.confidence]))

\* the inference call settles; its result reaches the handler only if the
\* race is still open
InferenceSettles(i) ==
    /\ inference[i] = "pending"
    /\ inference' = [inference EXCEPT ![i] = "settled"]
    /\ winner' = [winner EXCEPT ![i] = IF @ = "none" THEN "inference" ELSE @]
    /\ \E result \in InferenceOutcomes, fault \in Faults :
        IF RaceOpen(i)
        THEN Resume(i, analyzeSentiment(result), fault)
        ELSE UNCHANGED <<pc, sentiment, outcome, ret, entryOf,
                         learningOf, ratings, learnings>>
    /\ UNCHANGED <<rvars, ovars, now, prompt, sessionId, transcriptPath,
                   inferenceCalls, timer, armedAt>>

\* the timer fires and resolves the timeout promise with null
TimerFires(i) ==
    /\ timer[i] = "armed"
    /\ now >= TimerDue(armedAt[i])
    /\ timer' = [timer EXCEPT ![i] = "fired"]
    /\ armedAt' = [armedAt EXCEPT ![i] = 0]
    /\ winner' = [winner EXCEPT ![i] = IF @ = "none" THEN "timer" ELSE @]
    /\ IF RaceOpen(i)
       THEN Resume(i, Null, "none")
       ELSE UNCHANGED <<pc, sentiment, outcome, ret, entryOf,
                        learningOf, ratings, learnings>>
    /\ UNCHANGED <<rvars, ovars, now, prompt, sessionId, transcriptPath,
                   inference, inferenceCalls>>

\* time passes; a timer that is due fires before the clock moves on
Tick ==
    /\ now < MaxTime
    /\ \A i \in Inv : ~(timer[i] = "armed" /\ now >= TimerDue(armedAt[i]))
    /\ now' = now + TickMs
    /\ UNCHANGED <<rvars, ovars, hvars, ratings, learnings>>

InitSentiment ==
    /\ now = 0
    /\ pc = [i \in Inv |-> "idle"]
    /\ prompt = [i \in Inv |-> <<>>]
    /\ sessionId = [i \in Inv |-> "s1"]
    /\ transcriptPath = [i \in Inv |-> FALSE]
    /\ inference = [i \in Inv |-> "none"]
    /\ inferenceCalls = [i \in Inv |-> 0]
    /\ timer = [i \in Inv |-> "none"]
    /\ armedAt = [i \in Inv |-> 0]
    /\ winner = [i \in Inv |-> "none"]
    /\ sentiment = [i \in Inv |-> NoValue]
    /\ outcome = [i \in Inv |-> "none"]
    /\ ret = [i \in Inv |-> NoValue]
    /\ entryOf = [i \in Inv |-> 0]
    /\ learningOf = [i \in Inv |-> 0]
    /\ ratings = <<>>
    /\ learnings = <<>>

\* no response handled yet; each task has the documents it starts with
IdleCapture ==
    /\ currentWork = "t1"
    /\ iscFile = [t \in Tasks |-> ObjectFile(FreshISC(t), 2)]
    /\ threadFile = [t \in Tasks |-> File(FreshThread)]
    /\ captures = {}
    /\ turn = 0
    /\ response = <<>>
    /\ captureFault = "none"
    /\ captureRet = "none"
    /\ captureSession = "none"
\* no call on the event loop
IdleTurns ==
    /\ running = 0
    /\ cpc = <<>>
    /\ ctext = <<>>
    /\ held = <<>>
\* no result yet
Unset == [unset |-> TRUE]
IdlePure == input = <<>> /\ output = Unset
\* ------------------------------------------------ handleVoiceNotification
\* the machine before anything is known about it
NoMachine ==
    [health |-> "unknown", google |-> FALSE, macos |-> FALSE, calls |-> 0,
     session |-> "unknown"]
IdleVoice ==
    /\ vpc = "idle"
    /\ venv = NoMachine
    /\ vmsg = <<>>
    /\ attempts = <<>>
    /\ vret = "none"
\* the length below which a message is not spoken
VOICE_MIN_LENGTH == 5
\* /\[.*\]\(.*\)/: a bracket pair and a parenthesis pair on one line
HasLink(m) ==
    \E i \in 1..Len(m) : \E j \in (i + 1)..Len(m) : \E k \in (j + 2)..Len(m) :
        /\ m[i] = "[" /\ m[j] = "]" /\ m[j + 1] = "(" /\ m[k] = ")"
        /\ \A n \in i..k : ~IsLineTerminator(m[n])
\* /\/[\w-]+\/[\w-]+\//: two path segments between slashes
HasPath(m) ==
    \E i \in 1..Len(m) : \E j \in (i + 2)..Len(m) : \E k \in (j + 2)..Len(m) :
        /\ m[i] = "/" /\ m[j] = "/" /\ m[k] = "/"
        /\ \A n \in ((i + 1)..(j - 1)) \cup ((j + 1)..(k - 1)) :
                IsWord(m[n]) \/ m[n] = "-"
\* the backtick, one character
BACKTICK == "<backtick>"
\* lines 121-129
isValidVoiceCompletion(m) ==
    /\ m # <<>>
    /\ Len(m) >= VOICE_MIN_LENGTH
    /\ ~(includes(m, <<BACKTICK>>) \/ includes(m, <<"*", "*">>)
            \/ includes(m, <<"_", "_">>) \/ HasLink(m))
    /\ ~HasPath(m)
\* lines 134-136: 'Task completed.'
getVoiceFallback ==
    <<"T", "a", "s", "k", " ", "c", "o", "m", "p", "l", "e", "t", "e", "d", ".">>
\* the messages the caller hands over: none, too short, with markdown, with
\* code, a link, with a path, and two that can be spoken
VoiceMessages ==
    {<<>>,
     <<"o", "k">>,
     <<"*", "*", "D", "o", "n", "e", "*", "*">>,
     <<"r", "u", "n", " ", BACKTICK, "l", "s", BACKTICK>>,
     <<"s", "e", "e", " ", "[", "a", "]", "(", "b", ")">>,
     <<"i", "n", " ", "/", "u", "s", "r", "/", "l", "i", "b", "/">>,
     <<"D", "o", "n", "e", ".", ".">>,
     <<"A", "l", "l", " ", "s", "e", "t">>}
\* the engines, highest priority first
Engines == <<"elevenlabs", "google", "macos">>
\* what an engine's call can come to: the server answers ok, the server
\* answers with an error status, the call throws
EngineOutcomes == {"ok", "error", "throws"}
\* mutant: any answer of the voice server counts as sent
Sent_AnyResponse(answer) == answer # "throws"
\* lines 177-195: true after an ok response, false after an error status
\* (lines 182-190) and from the catch (lines 196-201)
Sent(answer) == answer = "ok"
\* the await the handler reaches when the engines before `engine` are done
\* with: lines 411, 420 and the return at 427
Fallback(engine, env) ==
    IF engine = "elevenlabs" /\ env.google THEN "google"
    ELSE IF engine \in {"elevenlabs", "google"} /\ env.macos THEN "say"
    ELSE "done"
\* the handler's state after an engine's call met `answer` and returned sent
AfterEngine(engine, answer, sent) ==
    /\ attempts' = Append(attempts, [engine |-> engine, answer |-> answer])
    /\ vpc' = IF sent THEN "done" ELSE Fallback(engine, venv)
    /\ vret' = IF sent THEN "true"
               ELSE IF Fallback(engine, venv) = "done" THEN "false" ELSE vret
    /\ UNCHANGED <<venv, vmsg>>
\* lines 387-401: the call, validation and the fallback message
VoiceCall ==
    /\ vpc \in {"idle", "done"} /\ venv.calls < MaxVoiceCalls
    /\ \E m \in VoiceMessages, sid \in {"s1", "unknown"}, g \in BOOLEAN,
            mac \in BOOLEAN :
        LET message == IF isValidVoiceCompletion(m) THEN m ELSE getVoiceFallback
            short == message = <<>> \/ Len(message) < VOICE_MIN_LENGTH
        IN  /\ vmsg' = message
            /\ venv' = [health |-> "unknown", google |-> g, macos |-> mac,
                        calls |-> venv.calls + 1, session |-> sid]
            /\ attempts' = <<>>
            /\ vpc' = IF short THEN "done" ELSE "health"
            /\ vret' = IF short THEN "false" ELSE "none"
    /\ UNCHANGED <<rvars, svars, cvars, tvars, pvars>>
\* lines 311-321 and 404: the health request resolves
IsElevenLabsAvailable ==
    /\ vpc = "health"
    /\ \E answer \in EngineOutcomes :
        /\ venv' = [venv EXCEPT !.health = IF answer = "ok" THEN "up" ELSE "down"]
        /\ vpc' = IF answer = "ok" THEN "elevenlabs"
                  ELSE Fallback("elevenlabs", venv)
        /\ vret' = IF answer # "ok" /\ Fallback("elevenlabs", venv) = "done"
                   THEN "false" ELSE vret
    /\ UNCHANGED <<rvars, svars, cvars, tvars, pvars, vmsg, attempts>>
\* lines 142-202 and 405-407
SendElevenLabs ==
    /\ vpc = "elevenlabs"
    /\ \E answer \in EngineOutcomes : AfterEngine("elevenlabs", answer, Sent(answer))
    /\ UNCHANGED <<rvars, svars, cvars, tvars, pvars>>
\* lines 221-305 and 411-416: the request, the audio file and afplay succeed
\* together or the call returns false
SendGoogleTTS ==
    /\ vpc = "google"
    /\ \E answer \in EngineOutcomes : AfterEngine("google", answer, answer = "ok")
    /\ UNCHANGED <<rvars, svars, cvars, tvars, pvars>>
\* lines 336-370 and 420-425: say exits or execAsync rejects
SendMacOSSay ==
    /\ vpc = "say"
    /\ \E answer \in {"ok", "throws"} : AfterEngine("macos", answer, answer = "ok")
    /\ UNCHANGED <<rvars, svars, cvars, tvars, pvars>>
InitVoice ==
    /\ msg = <<>> /\ verdict = "unset" /\ InitSentiment
    /\ IdleCapture /\ IdleTurns /\ IdlePure /\ IdleVoice
NextVoice ==
    \/ VoiceCall
    \/ IsElevenLabsAvailable
    \/ SendElevenLabs
    \/ SendGoogleTTS
    \/ SendMacOSSay
VoiceSpec == InitVoice /\ [][NextVoice]_vars

Init ==
    /\ msg = <<>> /\ verdict = "unset" /\ InitSentiment
    /\ IdleCapture /\ IdleTurns /\ IdlePure /\ IdleVoice
Next ==
    \/ \E i \in Inv : Invoke(i)
    \/ \E i \in Inv : InferenceSettles(i)
    \/ \E i \in Inv : TimerFires(i)
    \/ Tick
Spec == Init /\ [][Next]_vars

\* ---------------------------------------------------- isExplicitRating alone
InitRating ==
    /\ msg \in Messages /\ verdict = "unset" /\ InitSentiment
    /\ IdleCapture /\ IdleTurns /\ IdlePure /\ IdleVoice
ApplyIsExplicitRating ==
    /\ verdict = "unset"
    /\ verdict' = IF isExplicitRating(msg) THEN "explicit" ELSE "implicit"
    /\ UNCHANGED <<msg, svars, ovars>>
NextRating == ApplyIsExplicitRating
SpecRating == InitRating /\ [][NextRating]_vars


\* the fairness of the event loop: time passes and a due timer fires.
\* Nothing makes the inference call settle.
FairSpec ==
    /\ Spec
    /\ WF_vars(Tick)
    /\ \A i \in Inv : WF_vars(TimerFires(i))

\* the handler when no inference call ever resolves: Promise.race can be
\* settled by the timers alone
NextTimeout ==
    \/ \E i \in Inv : Invoke(i)
    \/ \E i \in Inv : TimerFires(i)
    \/ Tick
TimeoutSpec ==
    /\ Init /\ [][NextTimeout]_vars
    /\ WF_vars(Tick)
    /\ \A i \in Inv : WF_vars(TimerFires(i))

\* ------------------------------------------------- handleResponseCapture
\* handleResponseCapture(text, sessionId), to the settling of its promise;
\* nothing in captureWorkSummary suspends
HandleResponseCapture ==
    /\ turn < MaxTurns
    /\ \E text \in Responses, sid \in CaptureSessions, f \in CaptureFaults :
        LET structured == parseStructuredResponse(text)
            timestamp == Stamp(turn + 1)
            task == readCurrentWork(currentWork)
            meta == Truthy(structured.summary) \/ Truthy(structured.completed)
        IN  /\ iscFile' =
                  IF task = "null" THEN iscFile
                  ELSE [iscFile EXCEPT ![task] =
                            updateTaskISC(@, text, timestamp, f = "isc")]
            /\ threadFile' =
                  IF task = "null" \/ ~meta THEN threadFile
                  ELSE [threadFile EXCEPT ![task] =
                            updateTaskMeta(@, structured, timestamp,
                                           f = "thread")]
            /\ captures' =
                  IF isLearningCapture(text) /\ f # "learning"
                  THEN captures \cup {LearningFile(structured, text, timestamp)}
                  ELSE captures
            /\ captureRet' = IF Caught(f) THEN "resolved" ELSE "rejected"
            /\ response' = text
            /\ captureFault' = f
            /\ captureSession' = sid
    /\ turn' = turn + 1
    /\ UNCHANGED <<rvars, svars, tvars, pvars, vvars, currentWork>>

\* the files handleResponseCapture can find: the documents of task t1 in any
\* of their states when t1 is the current task
InitCapture ==
    /\ currentWork \in {"missing", "malformed"} \cup Tasks
    /\ iscFile \in [Tasks -> UNION {ISCFiles(t) : t \in Tasks}]
    /\ iscFile["t1"] \in ISCFiles("t1")
    /\ iscFile["t2"] = ObjectFile(FreshISC("t2"), 2)
    /\ threadFile \in [Tasks -> ThreadFiles]
    /\ threadFile["t2"] = File(FreshThread)
    /\ currentWork # "t1"
        => iscFile["t1"] = ObjectFile(FreshISC("t1"), 2)
           /\ threadFile["t1"] = File(FreshThread)
    /\ captures = {}
    /\ turn = 0
    /\ response = <<>>
    /\ captureFault = "none"
    /\ captureRet = "none"
    /\ captureSession = "none"

NextCapture == HandleResponseCapture
CaptureInit ==
    /\ msg = <<>> /\ verdict = "unset" /\ InitSentiment
    /\ InitCapture /\ IdleTurns /\ IdlePure /\ IdleVoice
CaptureSpec == CaptureInit /\ [][NextCapture]_vars

\* the host hands a user message to handleImplicitSentiment or the responses
\* of a session to handleResponseCapture.  The two handlers share no state;
\* a behaviour follows one of them
NextHost ==
    \/ turn = 0 /\ Invoke(1)
    \/ turn = 0 /\ InferenceSettles(1)
    \/ turn = 0 /\ TimerFires(1)
    \/ turn = 0 /\ Tick
    \/ pc[1] = "idle" /\ now = 0 /\ HandleResponseCapture
HostSpec == CaptureInit /\ [][NextHost]_vars

\* ------------------------------- handleResponseCapture on the event loop
\* The statements of one call, in order: the reads and writes of updateTaskISC
\* and updateTaskMeta, the learning file, the await of captureWorkSummary.
\* The event loop runs a call until it reaches a suspension point.
Calls == 1..MaxCalls
NoHeld == [isc |-> "none", thread |-> "none"]
\* mutant: the reads are awaited, so a call yields between read and write
Suspends_AfterRead(p) == p \in {"await", "iscWrite", "threadWrite"}
\* the statements a call can be suspended at: `await captureWorkSummary(...)`
\* at line 385 is the only await; readFileSync and writeFileSync return
\* before the next statement runs
Suspends(p) == p = "await"
\* the event loop lets call c run its next statement
Runs(c) == running = c \/ (running = 0 /\ Suspends(cpc[c]))
Goto(c, q) ==
    /\ cpc' = [cpc EXCEPT ![c] = q]
    /\ running' = IF Suspends(q) \/ q = "done" THEN 0 ELSE c
\* the host calls handleResponseCapture(text, sessionId); line 382
Dispatch(c) ==
    /\ running = 0 /\ cpc[c] = "idle"
    /\ \A j \in 1..(c - 1) : cpc[j] # "idle"
    /\ \E text \in Responses : ctext' = [ctext EXCEPT ![c] = text]
    /\ Goto(c, "iscRead")
    /\ UNCHANGED <<rvars, svars, cvars, pvars, vvars, held>>
\* lines 116-122: existsSync and readFileSync of ISC.json
ReadISC(c) ==
    /\ Runs(c) /\ cpc[c] = "iscRead"
    /\ held' = [held EXCEPT ![c].isc = iscFile[readCurrentWork(currentWork)]]
    /\ Goto(c, "iscWrite")
    /\ UNCHANGED <<rvars, svars, cvars, pvars, vvars, ctext>>
\* lines 123-145: the patch of what was read, and writeFileSync
WriteISC(c) ==
    /\ Runs(c) /\ cpc[c] = "iscWrite"
    /\ iscFile' = [iscFile EXCEPT ![readCurrentWork(currentWork)] =
                        updateTaskISC(held[c].isc, ctext[c], Stamp(c), FALSE)]
    /\ held' = [held EXCEPT ![c].isc = "none"]
    /\ LET structured == parseStructuredResponse(ctext[c])
       IN  Goto(c, IF Truthy(structured.summary) \/ Truthy(structured.completed)
                   THEN "threadRead" ELSE "learning")
    /\ UNCHANGED <<rvars, svars, pvars, vvars, ctext, currentWork, threadFile,
                   captures, turn, response, captureFault, captureRet,
                   captureSession>>
\* lines 159-165: existsSync and readFileSync of THREAD.md
ReadThread(c) ==
    /\ Runs(c) /\ cpc[c] = "threadRead"
    /\ held' = [held EXCEPT
                    ![c].thread = threadFile[readCurrentWork(currentWork)]]
    /\ Goto(c, "threadWrite")
    /\ UNCHANGED <<rvars, svars, cvars, pvars, vvars, ctext>>
\* lines 166-184: the patch of what was read, and writeFileSync
WriteThread(c) ==
    /\ Runs(c) /\ cpc[c] = "threadWrite"
    /\ threadFile' = [threadFile EXCEPT ![readCurrentWork(currentWork)] =
                        updateTaskMeta(held[c].thread,
                                       parseStructuredResponse(ctext[c]),
                                       Stamp(c), FALSE)]
    /\ held' = [held EXCEPT ![c].thread = "none"]
    /\ Goto(c, "learning")
    /\ UNCHANGED <<rvars, svars, pvars, vvars, ctext, currentWork, iscFile,
                   captures, turn, response, captureFault, captureRet,
                   captureSession>>
\* lines 325-358: the learning file
WriteLearning(c) ==
    /\ Runs(c) /\ cpc[c] = "learning"
    /\ captures' =
          IF isLearningCapture(ctext[c])
          THEN captures \cup {LearningFile(parseStructuredResponse(ctext[c]),
                                           ctext[c], Stamp(c))}
          ELSE captures
    /\ Goto(c, "await")
    /\ UNCHANGED <<rvars, svars, pvars, vvars, ctext, held, currentWork,
                   iscFile, threadFile, turn, response, captureFault,
                   captureRet, captureSession>>
\* lines 385-393: the call continues after its await and its promise resolves
Settle(c) ==
    /\ Runs(c) /\ cpc[c] = "await"
    /\ Goto(c, "done")
    /\ UNCHANGED <<rvars, svars, cvars, pvars, vvars, ctext, held>>
InitTurns ==
    /\ running = 0
    /\ cpc = [c \in Calls |-> "idle"]
    /\ ctext = [c \in Calls |-> <<>>]
    /\ held = [c \in Calls |-> NoHeld]
TurnInit ==
    /\ msg = <<>> /\ verdict = "unset" /\ InitSentiment
    /\ IdleCapture /\ InitTurns /\ IdlePure /\ IdleVoice
NextTurn ==
    \/ \E c \in Calls : Dispatch(c)
    \/ \E c \in Calls : ReadISC(c)
    \/ \E c \in Calls : WriteISC(c)
    \/ \E c \in Calls : ReadThread(c)
    \/ \E c \in Calls : WriteThread(c)
    \/ \E c \in Calls : WriteLearning(c)
    \/ \E c \in Calls : Settle(c)
TurnSpec == TurnInit /\ [][NextTurn]_vars

\* ------------------------------------------- parseStructuredResponse alone
\* the sections a response is made of, and a piece of prose
P_Summary ==
    <<CLIPBOARD, " ", "S", "U", "M", "M", "A", "R", "Y", ":", " ", "s",
      "1">>
P_Analysis ==
    <<MAGNIFIER, " ", "A", "N", "A", "L", "Y", "S", "I", "S", ":", " ", "a",
      "1">>
P_Actions ==
    <<BOLT, " ", "A", "C", "T", "I", "O", "N", "S", ":", " ", "x", "1">>
P_Results ==
    <<CHECKMARK, " ", "R", "E", "S", "U", "L", "T", "S", ":", " ", "r",
      "1">>
P_Status == <<CHART, " ", "S", "T", "A", "T", "U", "S", ":", " ", "u", "1">>
P_Next == <<ARROW, " ", "N", "E", "X", "T", ":", " ", "n", "1">>
P_Completed == <<SPEAKING, " ", "P", "A", "I", ":", " ", "d", "1">>
P_Prose == <<"t", "w", "o", "\n", "l", "i", "n", "e", "s">>
Sections ==
    {P_Summary, P_Analysis, P_Actions, P_Results, P_Status, P_Next,
     P_Completed, P_Prose}
\* responses of up to MaxSections sections, one per line
MaxSections == 2
JoinLines(parts) ==
    Flatten([k \in 1..Len(parts) |->
                IF k = 1 THEN parts[k] ELSE <<"\n">> \o parts[k]])
ParseTexts ==
    {JoinLines(parts) :
        parts \in UNION {[1..n -> Sections] : n \in 0..MaxSections}}
InitParse ==
    /\ msg = <<>> /\ verdict = "unset" /\ InitSentiment
    /\ IdleCapture /\ IdleTurns /\ IdleVoice
    /\ input \in ParseTexts /\ output = Unset
ApplyParseStructuredResponse ==
    /\ output = Unset
    /\ output' = parseStructuredResponse(input)
    /\ UNCHANGED <<rvars, svars, cvars, tvars, vvars, input>>
NextParse == ApplyParseStructuredResponse
ParseSpec == InitParse /\ [][NextParse]_vars

\* --------------------------------------------------------- getRecentContext
\* getRecentContext(transcriptPath, maxTurns = 3)
MAX_CONTEXT_TURNS == 3
\* text.slice(0, 200) of a user turn, text.slice(0, 150) of an assistant turn
USER_TEXT_LENGTH == 200
ASSISTANT_TEXT_LENGTH == 150
\* a text of n characters c
Repeat(c, n) == [k \in 1..n |-> c]
\* String.prototype.slice(0, n)
slice0(s, n) == SubSeq(s, 1, IF Len(s) < n THEN Len(s) ELSE n)
\* String.prototype.slice(-n) on arrays: the last n elements
sliceLast(seq, n) ==
    IF Len(seq) <= n THEN seq ELSE SubSeq(seq, Len(seq) - n + 1, Len(seq))
\* message.content: a string, an array of parts, or nothing
StringContent(text) == [kind |-> "string", text |-> text]
PartsContent(parts) == [kind |-> "parts", parts |-> parts]
NoContent == [kind |-> "absent"]
\* a line of the transcript: not JSON, or an entry
BrokenLine == [kind |-> "malformed"]
Entry(type, content) == [kind |-> "entry", type |-> type, content |-> content]
\* content.filter(c => c.type === 'text').map(c => c.text).join(' ')
JoinTextParts(parts) ==
    LET texts == SelectSeq(parts, LAMBDA c : c.type = "text")
    IN  Flatten([k \in 1..Len(texts) |->
                    IF k = 1 THEN texts[k].text ELSE <<" ">> \o texts[k].text])
\* the text of message.content; <<>> when there is none
ContentText(content) ==
    CASE content.kind = "string" -> content.text
      [] content.kind = "parts" -> JoinTextParts(content.parts)
      [] OTHER -> <<>>
\* entry.message?.content is truthy
HasContent(content) ==
    \/ content.kind = "string" /\ content.text # <<>>
    \/ content.kind = "parts"
\* ([^\n]+) from a position of R: the longest run without a newline, the
\* position \s* backs off to chosen as far right as a match allows
NotNewlines(text, R) ==
    LET starts == {r \in R : r <= Len(text) /\ text[r] # "\n"}
        r == Max(starts)
        e == Min({k \in r..Len(text) : k = Len(text) \/ text[k + 1] = "\n"})
    IN  IF starts = {} THEN Absent ELSE Present(SubSeq(text, r, e))
\* text.match(/SUMMARY:\s*([^\n]+)/i): group 1 of the leftmost match
SummaryOfTurn(text) ==
    LET At(p) == NotNewlines(text, ThenSpaces(text, ThenLit(text, {p}, L_summary)))
        starts == {p \in {r \in 1..Len(text) : toLowerCase(text[r]) = "s"} :
                        At(p).present}
    IN  IF starts = {} THEN Absent ELSE At(Min(starts))
\* lines 188-189: summaryMatch ? summaryMatch[1] : text.slice(0, 150)
AssistantText(text) ==
    IF SummaryOfTurn(text).present THEN SummaryOfTurn(text).value
    ELSE slice0(text, ASSISTANT_TEXT_LENGTH)
\* lines 161-194: the turns one line contributes
TurnsOfLine(line) ==
    IF line.kind # "entry" \/ ~HasContent(line.content) THEN <<>>
    ELSE LET text == ContentText(line.content)
         IN  IF line.type = "user"
             THEN IF Trim(text) # <<>>
                  THEN <<[role |-> "User",
                          text |-> slice0(text, USER_TEXT_LENGTH)]>>
                  ELSE <<>>
             ELSE IF line.type = "assistant"
             THEN IF text # <<>>
                  THEN <<[role |-> "Assistant", text |-> AssistantText(text)]>>
                  ELSE <<>>
             ELSE <<>>
RoleChars(role) ==
    IF role = "User" THEN <<"U", "s", "e", "r">>
    ELSE <<"A", "s", "s", "i", "s", "t", "a", "n", "t">>
\* lines 152-203: the turns kept, and the string returned
getRecentContext(transcript, maxTurns) ==
    LET turns == Flatten([k \in 1..Len(transcript) |->
                            TurnsOfLine(transcript[k])])
        recentTurns == sliceLast(turns, maxTurns)
    IN  [turns |-> recentTurns,
         context |->
            Flatten([k \in 1..Len(recentTurns) |->
                (IF k = 1 THEN <<>> ELSE <<"\n">>)
                \o RoleChars(recentTurns[k].role) \o <<":", " ">>
                \o recentTurns[k].text])]
\* the lines a transcript is made of: user and assistant turns at and past
\* the cut lengths, an assistant turn with a long summary line, a user turn
\* in parts, and lines that contribute nothing
TranscriptLines ==
    {Entry("user", StringContent(Repeat("u", USER_TEXT_LENGTH + 1))),
     Entry("user", PartsContent(<<[type |-> "text", text |-> <<"h", "i">>],
                                  [type |-> "image", text |-> <<>>],
                                  [type |-> "text", text |-> <<"y", "o">>]>>)),
     Entry("assistant", StringContent(Repeat("a", ASSISTANT_TEXT_LENGTH + 1))),
     Entry("assistant",
           StringContent(<<"o", "k", "\n", "S", "U", "M", "M", "A", "R", "Y",
                           ":", " ">> \o Repeat("s", USER_TEXT_LENGTH + 1)
                         \o <<"\n", "e", "n", "d">>)),
     Entry("user", StringContent(<<" ">>)),
     Entry("system", StringContent(<<"n", "o">>)),
     Entry("assistant", NoContent),
     BrokenLine}
Transcripts == UNION {[1..n -> TranscriptLines] : n \in 0..MaxLines}
InitContext ==
    /\ msg = <<>> /\ verdict = "unset" /\ InitSentiment
    /\ IdleCapture /\ IdleTurns /\ IdleVoice
    /\ input \in Transcripts /\ output = Unset
ApplyGetRecentContext ==
    /\ output = Unset
    /\ output' = getRecentContext(input, MAX_CONTEXT_TURNS)
    /\ UNCHANGED <<rvars, svars, cvars, tvars, vvars, input>>
NextContext == ApplyGetRecentContext
ContextSpec == InitContext /\ [][NextContext]_vars

\* ------------------------------------------------- the line of a RatingEntry
\* values a field of the entry takes: a string, a number (in tenths), or
\* undefined
Str(chars) == [kind |-> "string", chars |-> chars]
Num(tenths) == [kind |-> "number", tenths |-> tenths]
Undefined == [kind |-> "undefined"]
\* the keys of the object literal of lines 395-402, in order
EntryKeys ==
    <<"timestamp", "rating", "session_id", "source", "sentiment_summary",
      "confidence">>
KeyChars(key) ==
    CASE key = "timestamp" -> <<"t", "i", "m", "e", "s", "t", "a", "m", "p">>
      [] key = "rating" -> <<"r", "a", "t", "i", "n", "g">>
      [] key = "session_id" -> <<"s", "e", "s", "s", "i", "o", "n", "_", "i", "d">>
      [] key = "source" -> <<"s", "o", "u", "r", "c", "e">>
      [] key = "sentiment_summary" ->
            <<"s", "e", "n", "t", "i", "m", "e", "n", "t", "_", "s", "u", "m",
              "m", "a", "r", "y">>
      [] key = "confidence" ->
            <<"c", "o", "n", "f", "i", "d", "e", "n", "c", "e">>
\* mutant: a line break inside a string is written as it is
QuoteChar_RawNewline(c) ==
    CASE c = "\"" -> <<"\\", "\"">>
      [] c = "\\" -> <<"\\", "\\">>
      [] c = "\t" -> <<"\\", "t">>
      [] OTHER -> <<c>>
\* JSON.stringify of one character of a string
QuoteChar(c) ==
    CASE c = "\"" -> <<"\\", "\"">>
      [] c = "\\" -> <<"\\", "\\">>
      [] c = "\n" -> <<"\\", "n">>
      [] c = "\t" -> <<"\\", "t">>
      [] OTHER -> <<c>>
\* JSON.stringify of a string
Quote(chars) ==
    <<"\"">> \o Flatten([k \in 1..Len(chars) |-> QuoteChar(chars[k])]) \o <<"\"">>
\* the decimal digits of a natural number
NatToString(n) ==
    LET D[k \in 0..n] ==
            IF k < 10 THEN <<DigitChars[k + 1]>>
            ELSE D[k \div 10] \o <<DigitChars[(k % 10) + 1]>>
    IN  D[n]
\* Number.prototype.toString of a number given in tenths
NumberToString(tenths) ==
    LET abs == IF tenths < 0 THEN -tenths ELSE tenths
    IN  (IF tenths < 0 THEN <<"-">> ELSE <<>>)
        \o NatToString(abs \div 10)
        \o (IF abs % 10 = 0 THEN <<>> ELSE <<".", DigitChars[(abs % 10) + 1]>>)
\* JSON.stringify of a value
stringifyValue(v) ==
    IF v.kind = "string" THEN Quote(v.chars) ELSE NumberToString(v.tenths)
\* JSON.stringify(entry): the members whose value is not undefined
stringify(entry) ==
    LET keys == SelectSeq(EntryKeys, LAMBDA key : entry[key] # Undefined)
    IN  <<"{">>
        \o Flatten([k \in 1..Len(keys) |->
                (IF k = 1 THEN <<>> ELSE <<",">>)
                \o Quote(KeyChars(keys[k])) \o <<":">>
                \o stringifyValue(entry[keys[k]])])
        \o <<"}">>
\* line 241: appendFileSync(ratingsFile, JSON.stringify(entry) + '\n')
appendRatingLine(content, entry) == content \o stringify(entry) \o <<"\n">>
\* content.split('\n')
SplitLines(content) ==
    LET breaks == {k \in 1..Len(content) : content[k] = "\n"}
        \* the position of the j-th line break; 0 and Len + 1 at the ends
        Break(j) ==
            IF j = 0 THEN 0
            ELSE IF j > Cardinality(breaks) THEN Len(content) + 1
            ELSE CHOOSE k \in breaks :
                    Cardinality({m \in breaks : m <= k}) = j
    IN  [j \in 1..(Cardinality(breaks) + 1) |->
            SubSeq(content, Break(j - 1) + 1, Break(j) - 1)]
Failed == [ok |-> FALSE]
\* the backslashes that stand directly before position k, back to position lo
BackslashesBefore(s, k, lo) ==
    Max({n \in 0..(k - lo) : \A m \in 1..n : s[k - m] = "\\"})
\* JSON.parse of a string literal at position p: up to the first quote that
\* is not escaped; no raw control character, every escape a known one
ParseString(s, p) ==
    LET Escaping(k) == s[k] = "\\" /\ BackslashesBefore(s, k, p + 1) % 2 = 0
        Escaped(k) == k > p + 1 /\ Escaping(k - 1)
        closes == {k \in (p + 1)..Len(s) : s[k] = "\"" /\ ~Escaped(k)}
        close == Min(closes)
        body == (p + 1)..(close - 1)
        Decode(k) ==
            IF Escaping(k) THEN <<>>
            ELSE IF Escaped(k)
            THEN CASE s[k] = "n" -> <<"\n">>
                   [] s[k] = "t" -> <<"\t">>
                   [] OTHER -> <<s[k]>>
            ELSE <<s[k]>>
    IN  IF p > Len(s) \/ s[p] # "\"" \/ closes = {} THEN Failed
        ELSE IF \E k \in body :
                    \/ s[k] \in {"\n", "\t"}
                    \/ Escaped(k) /\ s[k] \notin {"\"", "\\", "/", "n", "t"}
        THEN Failed
        ELSE [ok |-> TRUE,
              value |-> Str(Flatten([j \in 1..(close - p - 1) |-> Decode(p + j)])),
              next |-> close + 1]
\* JSON.parse of a number at position p: -? digits (. digit)?
ParseNumber(s, p) ==
    LET q == IF p <= Len(s) /\ s[p] = "-" THEN p + 1 ELSE p
        runs == DigitRuns(s, q)
        n == Max(runs)
        whole == parseInt(SubSeq(s, q, q + n - 1))
        r == q + n
        fraction == r + 1 <= Len(s) /\ s[r] = "." /\ IsDigit(s[r + 1])
        abs == 10 * whole + (IF fraction THEN DigitValue(s[r + 1]) ELSE 0)
    IN  IF runs = {} \/ (n > 1 /\ s[q] = "0") THEN Failed
        ELSE IF fraction /\ r + 2 <= Len(s) /\ IsDigit(s[r + 2]) THEN Failed
        ELSE [ok |-> TRUE, value |-> Num(IF q > p THEN -abs ELSE abs),
              next |-> IF fraction THEN r + 2 ELSE r]
\* JSON.parse of a value at position p
ParseValue(s, p) ==
    IF p <= Len(s) /\ s[p] = "\"" THEN ParseString(s, p) ELSE ParseNumber(s, p)
\* JSON.parse(line) of an object of strings and numbers: its members in order
JSONparse(line) ==
    LET Members[n \in 0..(Len(line) + 1)] ==
            \* from position Len(line) + 1 - n, after { or ,
            LET p == Len(line) + 1 - n
                key == ParseString(line, p)
                val == IF key.ok /\ key.next <= Len(line) /\ line[key.next] = ":"
                       THEN ParseValue(line, key.next + 1) ELSE Failed
            IN  IF n = 0 \/ ~val.ok \/ val.next > Len(line) THEN Failed
                ELSE IF line[val.next] = "}"
                THEN [ok |-> TRUE, members |-> <<<<key.value.chars, val.value>>>>,
                      next |-> val.next + 1]
                ELSE IF line[val.next] = ","
                THEN LET rest == Members[Len(line) - val.next]
                     IN  IF rest.ok
                         THEN [rest EXCEPT !.members =
                                    <<<<key.value.chars, val.value>>>> \o @]
                         ELSE Failed
                ELSE Failed
        r == IF Len(line) >= 2 /\ line[1] = "{"
             THEN IF line[2] = "}"
                  THEN [ok |-> TRUE, members |-> <<>>, next |-> 3]
                  ELSE Members[Len(line) - 1]
             ELSE Failed
    IN  IF r.ok /\ r.next = Len(line) + 1 THEN r ELSE Failed
\* obj[key] of a parsed object: the last member of that key, else undefined
Member(obj, key) ==
    LET at == {k \in 1..Len(obj.members) : obj.members[k][1] = KeyChars(key)}
    IN  IF at = {} THEN Undefined ELSE obj.members[Max(at)][2]

\* getISOTimestamp(): new Date().toISOString()
ISOTimestamps ==
    {<<"2", "0", "2", "6", "-", "0", "1", "-", "0", "2", "T", "0", "3", ":",
       "0", "4", ":", "0", "5", ".", "0", "0", "6", "Z">>}
\* session ids the host passes
SessionIdTexts == {<<"s", "1">>, <<"a", "\"", "b">>}
\* ratings, in tenths: 5 (the baseline), 1, 10, 7.5, -2
RatingValues == {Num(50), Num(10), Num(100), Num(75), Num(-20)}
\* summaries the classifier gives: plain, quoted, with a line break, with a
\* backslash, with a tab, looking like JSON, empty, absent
SummaryValues ==
    {Str(<<"o", "k">>),
     Str(<<"s", "a", "y", " ", "\"", "h", "i", "\"">>),
     Str(<<"a", "\n", "b">>),
     Str(<<"c", ":", "\\", "n">>),
     Str(<<"\t", "x">>),
     Str(<<"\"", "}", ",", "{", "\"", "x", "\"", ":", "1">>),
     Str(<<>>),
     Undefined}
\* confidences, in tenths: 0.5, 0.9, 1, and absent
ConfidenceValues == {Num(5), Num(9), Num(10), Undefined}
\* the entry with its source literal spelled out
WithSourceChars(entry) ==
    [entry EXCEPT !.source =
        IF @ = "implicit" THEN Str(<<"i", "m", "p", "l", "i", "c", "i", "t">>)
        ELSE Str(<<"e", "x", "p", "l", "i", "c", "i", "t">>)]
\* the entry of lines 395-402 from its parts
EntryOf(t, rating, session, summary, confidence) ==
    WithSourceChars(
        ImplicitRatingEntry(Str(t), rating, Str(session),
            [rating |-> rating, summary |-> summary, confidence |-> confidence]))
\* the entries handleImplicitSentiment builds
WrittenEntries ==
    {EntryOf(t, rating, session, summary, confidence) :
        t \in ISOTimestamps, rating \in RatingValues,
        session \in SessionIdTexts, summary \in SummaryValues,
        confidence \in ConfidenceValues}
\* what ratings.jsonl holds before the call: nothing, or one earlier line
EarlierContents ==
    {<<>>,
     appendRatingLine(<<>>,
        EntryOf(<<"T">>, Num(30), <<"s", "0">>, Str(<<"b", "a", "d">>), Num(8)))}
\* the entries of later calls
LaterEntries ==
    {EntryOf(<<"T">>, Num(80), <<"s", "9">>, summary, Undefined) :
        summary \in {Str(<<"o", "k">>), Str(<<"a", "\n", "b">>)}}
InitRoundTrip ==
    /\ msg = <<>> /\ verdict = "unset" /\ InitSentiment
    /\ IdleCapture /\ IdleTurns /\ IdleVoice
    /\ input \in WrittenEntries /\ output = Unset
\* writeImplicitRating(entry): the entry's line goes after what the file holds
ApplyWriteImplicitRating ==
    /\ output = Unset
    /\ \E earlier \in EarlierContents :
        output' = [content |-> appendRatingLine(earlier, input),
                   line |-> Len(SplitLines(earlier)),
                   later |-> 0]
    /\ UNCHANGED <<rvars, svars, cvars, tvars, vvars, input>>
\* a later call appends its own line
AppendLater ==
    /\ output # Unset /\ output.later < MaxLater
    /\ \E entry \in LaterEntries :
        output' = [output EXCEPT !.content = appendRatingLine(@, entry),
                                 !.later = @ + 1]
    /\ UNCHANGED <<rvars, svars, cvars, tvars, vvars, input>>
NextRoundTrip == ApplyWriteImplicitRating \/ AppendLater
RoundTripSpec == InitRoundTrip /\ [][NextRoundTrip]_vars

\* ================================================================== claims
Classified(i) == sentiment[i].kind = "value"
Confident(i) == Classified(i) /\ sentiment[i].value.confidence >= MIN_CONFIDENCE
\* the rating of a classification on the 1..10 scale, absent read as 5
ScaleRating(i) ==
    IF sentiment[i].value.rating = NULL THEN 5 ELSE sentiment[i].value.rating

\* C1: whenever the inference result's confidence is below 0.5, the
\* invocation appends no RatingEntry and writes no LearningRecord, whatever
\* the rating (absent and below 6 included); no stored entry carries a
\* confidence below the threshold.
C1_LowConfidenceNotPersisted ==
    /\ \A i \in Inv :
        (Classified(i) /\ sentiment[i].value.confidence < MIN_CONFIDENCE)
            => entryOf[i] = 0 /\ learningOf[i] = 0 /\ ret[i] = Null
    /\ \A k \in 1..Len(ratings) : ratings[k].json.confidence >= MIN_CONFIDENCE
C1_Witness ==
    \E i \in Inv :
        /\ pc[i] = "done" /\ Classified(i) /\ transcriptPath[i]
        /\ sentiment[i].value.confidence < MIN_CONFIDENCE
        /\ sentiment[i].value.rating = NULL
        /\ outcome[i] = "low-confidence"

\* C2: if the timer settles before the inference call, the handler returns
\* failure, inference was invoked once only, and the result the inference
\* call delivers later causes no RatingEntry append and no LearningRecord.
C2_TimeoutDiscardsLateResult ==
    \A i \in Inv :
        winner[i] = "timer"
            => /\ pc[i] = "done" /\ ret[i] = Null /\ outcome[i] = "failed"
               /\ sentiment[i] = Null
               /\ inferenceCalls[i] = 1
               /\ entryOf[i] = 0 /\ learningOf[i] = 0
C2_Witness ==
    \E i \in Inv :
        /\ winner[i] = "timer" /\ inference[i] = "settled"
        /\ \E j \in Inv : j # i /\ entryOf[j] # 0

\* C3: if the inference call never resolves the handler still returns: a
\* racing invocation always comes to its return, and one that returns while
\* its inference call is pending returns failure exactly ANALYSIS_TIMEOUT
\* after the timer was set, not before.
C3_TimeoutTerminates ==
    /\ \A i \in Inv : (pc[i] = "racing") ~> (pc[i] = "done")
    /\ [][\A i \in Inv :
            (pc[i] = "racing" /\ pc'[i] = "done" /\ inference'[i] = "pending")
                => /\ now = armedAt[i] + ANALYSIS_TIMEOUT
                   /\ timer'[i] = "fired"
                   /\ ret'[i] = Null /\ outcome'[i] = "failed"]_vars
C3_Witness ==
    \E i \in Inv :
        /\ pc[i] = "done" /\ inference[i] = "pending" /\ timer[i] = "fired"
        /\ now = ANALYSIS_TIMEOUT

C5_AbsentRatingIsFive ==
    /\ \A k \in 1..Len(ratings) : ratings[k].json.rating # NULL
    /\ \A i \in Inv :
        (Classified(i) /\ sentiment[i].value.rating = NULL)
            => /\ entryOf[i] # 0 => ratings[entryOf[i]].json.rating = 5
               /\ learningOf[i] # 0 => learnings[learningOf[i]].rating = 5
               /\ ret[i].kind = "value" => ret[i].value.rating = 5
C5_Witness ==
    \E i \in Inv :
        /\ Classified(i) /\ sentiment[i].value.rating = NULL
        /\ entryOf[i] # 0 /\ learningOf[i] # 0 /\ ret[i].kind = "value"

\* C6: for a prompt that is an explicit rating or shorter than three
\* characters the inference collaborator is never invoked, and the
\* invocation appends no RatingEntry and writes no LearningRecord.
\* The prompts of the handler that isExplicitRating takes for a rating,
\* written out; C6 checks the list against isExplicitRating once, in the
\* initial state, and uses it in every other state.
ExplicitPrompts == {<<"8"," ","g","r","e","a","t">>}
C6_GuardedPromptsDoNothing ==
    /\ (\A i \in Inv : pc[i] = "idle")
        => ExplicitPrompts = {p \in Prompts : isExplicitRating(p)}
    /\ \A i \in Inv :
        (pc[i] # "idle"
         /\ (prompt[i] \in ExplicitPrompts \/ Len(prompt[i]) < MIN_PROMPT_LENGTH))
            => /\ inferenceCalls[i] = 0 /\ inference[i] = "none"
               /\ timer[i] = "none"
               /\ pc[i] = "done" /\ ret[i] = Null
               /\ entryOf[i] = 0 /\ learningOf[i] = 0
C6_Witness ==
    \E i, j \in Inv :
        /\ pc[i] = "done" /\ prompt[i] \in ExplicitPrompts
        /\ Len(prompt[i]) >= MIN_PROMPT_LENGTH
        /\ pc[j] = "done" /\ Len(prompt[j]) < MIN_PROMPT_LENGTH
        /\ prompt[j] \notin ExplicitPrompts

\* ---- what C7 says isExplicitRating computes
LeadingDigits(s) ==
    LET L[n \in 0..Len(s)] ==
            IF n = Len(s) THEN n
            ELSE IF IsDigit(s[n + 1]) THEN L[n + 1] ELSE n
    IN  L[0]
\* the decimal numerals of 1..10
RatingNumerals ==
    {<<"1">>, <<"2">>, <<"3">>, <<"4">>, <<"5">>, <<"6">>, <<"7">>, <<"8">>,
     <<"9">>, <<"1", "0">>}
\* the text after the number, less the optional punctuation around it
Justification(rest) ==
    LET r == TrimStart(rest)
    IN  IF r # <<>> /\ r[1] \in {"-", ":"} THEN TrimStart(Drop(r, 1)) ELSE r
StatedExplicitRating(m) ==
    LET t == Trim(m)
        d == LeadingDigits(t)
        j == Justification(Drop(t, d))
    IN  /\ SubSeq(t, 1, d) \in RatingNumerals
        /\ DotStarToEnd(j)
        /\ ~(j # <<>> /\ sentenceStarters(j))

\* C7: isExplicitRating(message) is true exactly when the trimmed message
\* starts with an integer in 1..10, optionally followed by punctuation and
\* a justification that does not begin with a sentence starter; a message
\* whose leading integer lies outside 1..10 is not explicit.
C7_ExplicitRatingExact ==
    verdict # "unset" => (verdict = "explicit" <=> StatedExplicitRating(msg))

\* C8: the ratings store is only ever extended.  A step leaves it as it is
\* or appends one complete newline-terminated line to it; an invocation
\* appends one line if its classification was accepted and none if it was
\* deferred, skipped, failed or of low confidence.
RatingEntries ==
    [timestamp : 0..MaxTime, rating : Int, session_id : {"s1", "s2"},
     source : {"implicit"}, sentiment_summary : {"summary"},
     confidence : 0..100]
C8_StoreAppendOnly ==
    /\ [][\/ ratings' = ratings
          \/ /\ Len(ratings') = Len(ratings) + 1
             /\ SubSeq(ratings', 1, Len(ratings)) = ratings
             /\ ratings'[Len(ratings')].newline
             /\ ratings'[Len(ratings')].json \in RatingEntries]_vars
    /\ [](\A i \in Inv :
            /\ outcome[i] = "accepted" => entryOf[i] # 0
            /\ outcome[i] \in {"deferred", "skipped", "failed", "low-confidence"}
                => entryOf[i] = 0
            /\ entryOf[i] # 0 => Confident(i) /\ entryOf[i] \in 1..Len(ratings))
    /\ [](Len(ratings) = Cardinality({i \in Inv : entryOf[i] # 0}))
    /\ [](\A i, j \in Inv : (i # j /\ entryOf[i] # 0) => entryOf[i] # entryOf[j])
C8_Witness ==
    /\ Len(ratings) = 2
    /\ entryOf[1] = 2 /\ entryOf[2] = 1
    /\ ratings[1].json.session_id = "s2"

\* C9: whenever a classification succeeds with confidence at or above the
\* threshold (and no file operation fails), a RatingEntry is appended, and
\* if its rating is below 6 a LearningRecord is written in the same
\* invocation.
C9_LowRatingAlwaysLearned ==
    \A i \in Inv :
        (pc[i] = "done" /\ Confident(i) /\ outcome[i] = "accepted")
            => /\ entryOf[i] # 0
               /\ ScaleRating(i) < 6 => learningOf[i] # 0

\* C10: the sentiment path writes a LearningRecord only for a (normalised)
\* rating below 6; an invocation whose rating is 6 or more writes none.
C10_LearningOnlyBelowSix ==
    /\ \A k \in 1..Len(learnings) : learnings[k].rating < 6
    /\ \A i \in Inv :
        /\ learningOf[i] # 0 => Classified(i) /\ ScaleRating(i) < 6
        /\ (Classified(i) /\ ScaleRating(i) >= 6) => learningOf[i] = 0
C10_Witness ==
    \E i, j \in Inv :
        /\ outcome[i] = "accepted" /\ transcriptPath[i]
        /\ ScaleRating(i) = 6 /\ learningOf[i] = 0
        /\ learningOf[j] # 0

\* C11: the outcomes of handleImplicitSentiment that are not accepted
\* classifications (deferred, skipped, failed or timed out, low confidence)
\* are distinguishable by the caller: two invocations that left by different
\* ones of these branches returned different values.
NotAccepted == {"deferred", "skipped", "failed", "low-confidence"}
C11_OutcomesDistinguishable ==
    \A i, j \in Inv :
        (/\ pc[i] = "done" /\ pc[j] = "done"
         /\ outcome[i] \in NotAccepted /\ outcome[j] \in NotAccepted
         /\ outcome[i] # outcome[j])
            => ret[i] # ret[j]

\* ---- what the responses say, as a reader takes them
\* the responses that name an effort level
NamesEffort == {R_EffortMarker}
\* the satisfaction a response states; one that holds both phrasings is read
\* by its "all satisfied" phrase
StatedSatisfaction(text) ==
    CASE text = R_AllSatisfied -> Satisfaction(6, 6)
      [] text = R_Partial -> Satisfaction(2, 5)
      [] text = R_MarkerPartial -> Satisfaction(2, 5)
      [] text = R_Five -> Satisfaction(5, 5)
      [] text = R_Both -> Satisfaction(6, 6)
      [] OTHER -> NoSatisfaction
\* the responses that hold the literal completion marker
CarriesMarker == {R_MarkerPartial, R_EffortMarker}
\* the step rewrote the ISC document of task t
ISCWritten(t) ==
    /\ iscFile[t].kind = "object"
    /\ iscFile'[t] # iscFile[t]
\* in how many places s holds lit
Count(s, lit) == Cardinality({p \in 1..Len(s) : OccursAt(s, p, lit)})
\* the leading metadata block of a thread document runs from the fence that
\* opens the content to the next line that is a fence
CloseFence(s) ==
    LET P == {p \in LinesEqual(s, FENCE) : p > 1}
    IN  IF OccursAt(s, 1, FENCE_NL) /\ P # {} THEN Min(P) ELSE 0
Header(s) == IF CloseFence(s) = 0 THEN <<>> ELSE SubSeq(s, 1, CloseFence(s) - 1)
Body(s) ==
    IF CloseFence(s) = 0 THEN s ELSE Drop(s, CloseFence(s) + Len(FENCE) - 1)
\* the lines of the header that set the field `name`: how many, and their texts
FieldLines(s, name) ==
    LET h == Header(s)
        P == {p \in 1..Len(h) : LineStart(h, p) /\ OccursAt(h, p, name)}
    IN  [count |-> Cardinality(P),
         texts |-> {SubSeq(h, p, Min({k \in p..Len(h) : LineEnd(h, k + 1)})) :
                        p \in P}]
HEADER_T1_HALF ==
    <<"-", "-", "-", "\n", "s", "t", "a", "t", "u", "s", ":", " ", "\"",
      "D", "O", "N", "E", "\"", "\n", "c", "o", "m", "p", "l", "e", "t",
      "e", "d", "A", "t", ":", " ", "\"", "T", "1", "\"", "\n", "s", "u",
      "m", "m", "a", "r", "y", ":", " ", "\"", "h", "a", "l", "f", "\"",
      "\n">>

C13_SameResponseTwice ==
    [][(/\ turn >= 1 /\ turn' = turn + 1
        /\ response' = response
        /\ captureFault = "none" /\ captureFault' = "none")
       => \A t \in Tasks :
            /\ iscFile[t].kind = "object"
                => /\ iscFile'[t].kind = "object"
                   /\ iscFile'[t].doc.satisfaction = iscFile[t].doc.satisfaction
                   /\ iscFile'[t].doc.status = iscFile[t].doc.status
            /\ threadFile'[t].exists = threadFile[t].exists
            /\ Count(threadFile'[t].content, L_completedAt)
                 = Count(threadFile[t].content, L_completedAt)
            /\ Count(threadFile'[t].content, L_summaryField)
                 = Count(threadFile[t].content, L_summaryField)]_vars
C13_Witness ==
    /\ turn = 2 /\ currentWork = "t1"
    /\ response = R_Partial /\ captureFault = "none"
    /\ iscFile["t1"].kind = "object"
    /\ iscFile["t1"].doc.satisfaction = Satisfaction(2, 5)
    /\ iscFile["t1"].doc.updatedAt = Stamp(2)
    /\ threadFile["t1"].exists
    /\ Header(threadFile["t1"].content) = HEADER_T1_HALF
    /\ Count(threadFile["t1"].content, L_completedAt) = 1
    /\ Count(threadFile["t1"].content, L_summaryField) = 1

\* C14: updateTaskISC is a merge-patch.  When it rewrites an ISC document the
\* document keeps its fields, every field but effortLevel, satisfaction,
\* status and updatedAt keeps its value, and each of effortLevel,
\* satisfaction and status keeps its value when the response carries no token
\* for it.
PatchedFields == {"effortLevel", "satisfaction", "status", "updatedAt"}
C14_MergePatch ==
    [][\A t \in Tasks :
        ISCWritten(t)
            => /\ iscFile'[t].kind = "object"
               /\ DOMAIN iscFile'[t].doc = DOMAIN iscFile[t].doc
               /\ \A f \in DOMAIN iscFile[t].doc \ PatchedFields :
                    iscFile'[t].doc[f] = iscFile[t].doc[f]
               /\ response' \notin NamesEffort
                    => iscFile'[t].doc.effortLevel = iscFile[t].doc.effortLevel
               /\ StatedSatisfaction(response') = NoSatisfaction
                    => iscFile'[t].doc.satisfaction = iscFile[t].doc.satisfaction
               /\ (/\ StatedSatisfaction(response') = NoSatisfaction
                   /\ response' \notin CarriesMarker)
                    => iscFile'[t].doc.status = iscFile[t].doc.status]_vars
C14_Witness ==
    /\ turn = 1 /\ currentWork = "t1" /\ response = R_Plain
    /\ iscFile["t1"] =
          ObjectFile([DoneISC("t1") EXCEPT !.updatedAt = Stamp(1)], 2)

\* C15: updateTaskISC sets satisfaction from the response: "N criteria, all
\* satisfied" gives satisfied = total = N, "A/B criteria satisfied" gives
\* satisfied = A and total = B, both with partial = failed = 0, and a
\* response with neither phrasing leaves the stored satisfaction as it is.
C15_SatisfactionFromText ==
    [][\A t \in Tasks :
        ISCWritten(t)
            => iscFile'[t].doc.satisfaction =
                 IF StatedSatisfaction(response') = NoSatisfaction
                 THEN iscFile[t].doc.satisfaction
                 ELSE StatedSatisfaction(response')]_vars
C15_Witness ==
    /\ currentWork = "t1" /\ response = R_Partial /\ captureFault = "none"
    /\ iscFile["t1"].kind = "object"
    /\ iscFile["t1"].doc.updatedAt = Stamp(turn)
    /\ iscFile["t1"].doc.satisfaction =
          [satisfied |-> 2, partial |-> 0, failed |-> 0, total |-> 5]
    /\ iscFile["t1"].doc.effortLevel = "QUICK"

\* C16: a response with satisfaction data and no completion marker sets the
\* status to COMPLETE if satisfied = total and to PARTIAL otherwise; one with
\* neither satisfaction data nor a marker leaves the stored status.
C16_StatusFromSatisfaction ==
    [][\A t \in Tasks :
        (ISCWritten(t) /\ response' \notin CarriesMarker)
            => LET s == StatedSatisfaction(response')
               IN  iscFile'[t].doc.status =
                     IF s = NoSatisfaction THEN iscFile[t].doc.status
                     ELSE IF s.satisfied = s.total THEN "COMPLETE"
                     ELSE "PARTIAL"]_vars
C16_Witness ==
    /\ turn = 2 /\ currentWork = "t1" /\ response = R_Partial
    /\ iscFile["t1"].kind = "object"
    /\ iscFile["t1"].doc.updatedAt = Stamp(2)
    /\ iscFile["t1"].doc.status = "PARTIAL"
    /\ iscFile["t1"].doc.effortLevel = "THOROUGH"

\* C17: a literal completion marker in the response forces the status to
\* COMPLETE whatever satisfaction the same response states, also when
\* satisfied < total.
C17_MarkerWins ==
    [][\A t \in Tasks :
        (ISCWritten(t) /\ response' \in CarriesMarker)
            => iscFile'[t].doc.status = "COMPLETE"]_vars
C17_Witness ==
    /\ currentWork = "t1" /\ response = R_MarkerPartial
    /\ iscFile["t1"].kind = "object"
    /\ iscFile["t1"].doc.updatedAt = Stamp(turn)
    /\ iscFile["t1"].doc.satisfaction = Satisfaction(2, 5)
    /\ iscFile["t1"].doc.status = "COMPLETE"

\* C18: updateTaskMeta never rewrites the body of the thread document: after
\* any update the content that follows the leading metadata block is what it
\* was before.
C18_BodyNeverRewritten ==
    [][\A t \in Tasks :
        threadFile[t].exists
            => Body(threadFile'[t].content) = Body(threadFile[t].content)]_vars

C20_MissingOrMalformedSkipped ==
    [][\A t \in Tasks :
        /\ iscFile[t].kind \in {"missing", "malformed"}
            => iscFile'[t] = iscFile[t]
        /\ ~threadFile[t].exists => threadFile'[t] = threadFile[t]
        /\ captureRet' # "rejected"]_vars
C20_Witness ==
    /\ turn = 1 /\ currentWork = "t1"
    /\ response = R_Partial /\ captureFault = "none"
    /\ iscFile["t1"] = MalformedFile
    /\ threadFile["t1"] = NoFile
    /\ captureRet = "resolved"

\* the responses that carry a summary or a completion line
CarriesCompletion == {R_Partial, R_Completed, R_Five}
\* the status lines of the leading metadata block
ThreadStatus(s) == FieldLines(s, L_status).texts

\* C26: the status of the thread document changes only from in-progress to
\* done, only in a turn whose response carries a completion line or a
\* summary, and once done no later turn changes it back.
C26_ThreadStatusOneWay ==
    [][\A t \in Tasks :
        (threadFile[t].exists /\ threadFile'[t].content # threadFile[t].content)
            => /\ ThreadStatus(threadFile'[t].content)
                    # ThreadStatus(threadFile[t].content)
                  => /\ ThreadStatus(threadFile[t].content)
                          = {STATUS_IN_PROGRESS}
                     /\ ThreadStatus(threadFile'[t].content) = {STATUS_DONE}
                     /\ response' \in CarriesCompletion
               /\ ThreadStatus(threadFile[t].content) = {STATUS_DONE}
                  => ThreadStatus(threadFile'[t].content) = {STATUS_DONE}]_vars
C26_Witness ==
    /\ turn = 2 /\ currentWork = "t1"
    /\ response = R_Five /\ captureFault = "none"
    /\ threadFile["t1"].exists
    /\ Header(threadFile["t1"].content) = HEADER_T1_HALF
    /\ ThreadStatus(threadFile["t1"].content) = {STATUS_DONE}

\* the status a response decides by itself, "" when it decides none
StatusSaid(text) ==
    CASE text \in CarriesMarker -> "COMPLETE"
      [] text \in {R_AllSatisfied, R_Five, R_Both} -> "COMPLETE"
      [] text = R_Partial -> "PARTIAL"
      [] OTHER -> ""
\* C30: the ISC status is decided by the latest response that carries
\* satisfaction data or a marker, whatever the status was: after the status
\* became COMPLETE a later "A/B criteria satisfied" with A # B and no marker
\* sets it to PARTIAL, and a response with neither leaves it as it was.
C30_LatestResponseDecides ==
    [][\A t \in Tasks :
        ISCWritten(t)
            => /\ StatusSaid(response') # ""
                    => iscFile'[t].doc.status = StatusSaid(response')
               /\ (iscFile[t].doc.status = "COMPLETE" /\ response' = R_Partial)
                    => iscFile'[t].doc.status = "PARTIAL"
               /\ (iscFile[t].doc.status = "COMPLETE" /\ response' = R_Plain)
                    => iscFile'[t].doc.status = "COMPLETE"]_vars
C30_Witness ==
    /\ turn = 1 /\ currentWork = "t1" /\ response = R_Partial
    /\ iscFile["t1"].kind = "object"
    /\ iscFile["t1"].doc.effortLevel = "QUICK"
    /\ iscFile["t1"].doc.createdAt = Stamp(0)
    /\ iscFile["t1"].doc.updatedAt = Stamp(1)
    /\ iscFile["t1"].doc.status = "PARTIAL"

\* C25: every captureLowRatingLearning invocation writes to a filename that
\* no earlier invocation wrote to, so no LearningRecord is overwritten.
C25_FilenamesDistinct ==
    \A j, k \in 1..Len(learnings) :
        j # k => learnings[j].filename # learnings[k].filename

\* C29: the RatingEntry is appended before the LearningRecord is written:
\* every LearningRecord of an invocation has the RatingEntry of that
\* invocation, with the same rating, in the store; and an invocation whose
\* LearningRecord write failed has its RatingEntry in the store and returned
\* null.
C29_EntryBeforeLearning ==
    \A i \in Inv :
        /\ learningOf[i] # 0
            => /\ entryOf[i] \in 1..Len(ratings)
               /\ ratings[entryOf[i]].json.rating
                    = learnings[learningOf[i]].rating
               /\ ratings[entryOf[i]].json.session_id = sessionId[i]
        /\ (pc[i] = "done" /\ outcome[i] = "error" /\ entryOf[i] # 0)
            => /\ entryOf[i] \in 1..Len(ratings)
               /\ ratings[entryOf[i]].json.session_id = sessionId[i]
               /\ learningOf[i] = 0
               /\ ret[i] = Null
C29_Witness ==
    \E i \in Inv :
        /\ pc[i] = "done" /\ outcome[i] = "error"
        /\ transcriptPath[i]
        /\ entryOf[i] \in 1..Len(ratings)
        /\ ratings[entryOf[i]].json.rating < 6
        /\ learningOf[i] = 0
        /\ ret[i] = Null

\* C21: a turn of one session modifies only the ISC and thread documents of
\* that session's own current task: no call of handleResponseCapture for one
\* session changes a document of a task of another session.
C21_OwnTaskOnly ==
    [][\A t \in Tasks :
        (iscFile'[t] # iscFile[t] \/ threadFile'[t] # threadFile[t])
            => TaskSession(t) = captureSession']_vars

\* the documents of the current task after the first n calls, each applied
\* to what the call before it left
ISCAfter(n) ==
    LET A[k \in 0..n] ==
            IF k = 0 THEN ObjectFile(FreshISC("t1"), 2)
            ELSE updateTaskISC(A[k - 1], ctext[k], Stamp(k), FALSE)
    IN  A[n]
ThreadAfter(n) ==
    LET A[k \in 0..n] ==
            IF k = 0 THEN File(FreshThread)
            ELSE LET structured == parseStructuredResponse(ctext[k])
                 IN  IF Truthy(structured.summary) \/ Truthy(structured.completed)
                     THEN updateTaskMeta(A[k - 1], structured, Stamp(k), FALSE)
                     ELSE A[k - 1]
    IN  A[n]
\* the calls that have made their writes
Written(c) == cpc[c] \in {"await", "done"}

\* C22: with the turns handled one at a time, each Task State Updater
\* invocation works on the document the previous invocation left, nothing is
\* suspended between its read and its write, and no update is lost: once the
\* first n calls have made their writes, the documents are the n updates
\* applied in order.
C22_NoLostUpdate ==
    /\ \A c \in Calls :
        /\ cpc[c] \in {"iscWrite", "threadWrite"} => running = c
        /\ cpc[c] = "iscWrite" => held[c].isc = iscFile["t1"]
        /\ cpc[c] = "threadWrite" => held[c].thread = threadFile["t1"]
    /\ \A n \in Calls :
        ((\A c \in 1..n : Written(c)) /\ (\A c \in Calls : c > n => cpc[c] = "idle"))
            => /\ iscFile["t1"] = ISCAfter(n)
               /\ threadFile["t1"] = ThreadAfter(n)
C22_Witness ==
    /\ cpc[1] = "done" /\ cpc[2] = "done"
    /\ ctext[1] = R_EffortMarker /\ ctext[2] = R_Partial
    /\ iscFile["t1"].doc.effortLevel = "THOROUGH"
    /\ iscFile["t1"].doc.satisfaction = Satisfaction(2, 5)
    /\ iscFile["t1"].doc.updatedAt = Stamp(2)
    /\ Header(threadFile["t1"].content) # Header(FreshThread)

\* the symbols that open a recognized section
SectionMarkers ==
    {CLIPBOARD, MAGNIFIER, BOLT, CHECKMARK, CHART, ARROW, SPEAKING}
Fields ==
    {"summary", "analysis", "actions", "results", "status", "next",
     "completed"}
\* C24: parseStructuredResponse gives each field the content from its marker
\* to the next recognized section marker or the end of the text, never with a
\* following section's marker or content, and a field whose marker does not
\* occur is absent.
C24_SectionsKeptApart ==
    output # Unset
        => \A f \in Fields :
            /\ output[f].present
                => \A k \in 1..Len(output[f].value) :
                        output[f].value[k] \notin SectionMarkers
            /\ output[f].present
                <=> \E k \in 1..Len(input) :
                        input[k] = CASE f = "summary" -> CLIPBOARD
                                     [] f = "analysis" -> MAGNIFIER
                                     [] f = "actions" -> BOLT
                                     [] f = "results" -> CHECKMARK
                                     [] f = "status" -> CHART
                                     [] f = "next" -> ARROW
                                     [] OTHER -> SPEAKING

\* the lines of a transcript that are a turn: a user entry with text that is
\* not blank, an assistant entry with text
IsTurn(line) ==
    /\ line.kind = "entry" /\ line.type \in {"user", "assistant"}
    /\ line.content.kind \in {"string", "parts"}
    /\ \E k \in 1..Len(ContentText(line.content)) :
            line.type = "assistant" \/ ~IsSpace(ContentText(line.content)[k])
SpokenRoles(transcript) ==
    LET spoken == SelectSeq(transcript, IsTurn)
    IN  [k \in 1..Len(spoken) |->
            IF spoken[k].type = "user" THEN "User" ELSE "Assistant"]
\* C27: the context getRecentContext builds holds at most 3 turns, they are
\* the most recent turns of the transcript in order, and the text of every
\* turn, user or assistant, is cut to at most 200 characters.
C27_ContextBounded ==
    output # Unset
        => /\ Len(output.turns) <= 3
           /\ [k \in 1..Len(output.turns) |-> output.turns[k].role]
                = sliceLast(SpokenRoles(input), 3)
           /\ \A k \in 1..Len(output.turns) :
                Len(output.turns[k].text) <= 200

\* the line of the store that the entry under test was written to
LineRead == JSONparse(SplitLines(output.content)[output.line])
\* C23: parsing the one line appended for a RatingEntry, whatever lines stand
\* before and after it, gives back exactly the entry written: timestamp,
\* rating, session id, source 'implicit', sentiment summary and confidence,
\* and no other member.
C23_LineRoundTrip ==
    output # Unset
        => /\ LineRead.ok
           /\ \A k \in 1..Len(EntryKeys) :
                Member(LineRead, EntryKeys[k]) = input[EntryKeys[k]]
           /\ \A k \in 1..Len(LineRead.members) :
                \E j \in 1..Len(EntryKeys) :
                    LineRead.members[k][1] = KeyChars(EntryKeys[j])
           /\ Member(LineRead, "source") = Str(<<"i", "m", "p", "l", "i", "c", "i", "t">>)
\* an entry whose summary holds a line break and a quote-like text was
\* written after an earlier line and followed by a later one
C23_Witness ==
    /\ output # Unset /\ output.line = 2 /\ output.later >= 1
    /\ input.sentiment_summary = Str(<<"a", "\n", "b">>)
    /\ LineRead.ok
    /\ Member(LineRead, "sentiment_summary") = Str(<<"a", "\n", "b">>)

\* the place of an engine in the priority order
Priority(engine) == CHOOSE k \in 1..Len(Engines) : Engines[k] = engine
\* the engine was found unavailable: the voice server's health request did
\* not answer ok, no API key is configured, the platform is not macOS
Unavailable(engine) ==
    CASE engine = "elevenlabs" -> venv.health = "down"
      [] engine = "google" -> ~venv.google
      [] engine = "macos" -> ~venv.macos
\* the engine spoke the message: its request or command went through
Spoke(attempt) == attempt.answer = "ok"
\* C28: handleVoiceNotification tries ElevenLabs, then Google Cloud TTS, then
\* macOS say: an engine is tried only if every engine of higher priority was
\* unavailable or failed, none is tried after one succeeded, and the handler
\* returns true exactly when an engine reported success.
C28_EnginePriority ==
    /\ \A k \in 1..Len(attempts) : \A e \in 1..(Priority(attempts[k].engine) - 1) :
            \/ Unavailable(Engines[e])
            \/ \E j \in 1..(k - 1) :
                    attempts[j].engine = Engines[e] /\ ~Spoke(attempts[j])
    /\ \A j, k \in 1..Len(attempts) :
            j < k => Priority(attempts[j].engine) < Priority(attempts[k].engine)
    /\ \A k \in 1..(Len(attempts) - 1) : ~Spoke(attempts[k])
    /\ vpc = "done" => vret \in {"true", "false"}
    /\ vret = "true" <=> \E k \in 1..Len(attempts) : Spoke(attempts[k])
    /\ vret = "false" =>
            vpc = "done" /\ \A k \in 1..Len(attempts) : ~Spoke(attempts[k])
\* the voice server and Google both failed and macOS say spoke the message
C28_Witness ==
    /\ vpc = "done" /\ vret = "true"
    /\ attempts = <<[engine |-> "elevenlabs", answer |-> "error"],
                    [engine |-> "google", answer |-> "throws"],
                    [engine |-> "macos", answer |-> "ok"]>>

====
